---- MODULE Spec2Model ----
(***************************************************************************)
(* The ingestion pipeline of the aircraft tracker: AircraftService         *)
(* (services/aircraftService.js) and the aircraft table (database/init.js).*)
(*                                                                         *)
(* A fetch cycle is one call of fetchAircraftData.  It is an async         *)
(* function, so each call is a process of its own that sits at an await    *)
(* (the provider's HTTP response, the statements of updateDatabase) while   *)
(* other callbacks run.  The model keeps one record per cycle ever started. *)
(*                                                                         *)
(* An optional JavaScript value is a tuple: NULL (null or undefined) is    *)
(* <<>>, and the value v is <<v>>.                                         *)
(***************************************************************************)
EXTENDS Integers, Sequences, FiniteSets, TLC

\* ------------------------------------------------------------------ bounds
\* Fetch cycles started in one run of the model (initial update + cron ticks).
MaxCycles == 2
\* Longest list a provider returns.
MaxBatch == 3
\* The wall clock (CURRENT_TIMESTAMP) runs from 0 to MaxTime.
MaxTime == 1
\* cron.schedule registrations in one run of the model.
MaxSchedules == 2

\* ------------------------------------------------------------ JS values
NULL == <<>>

Some(v) == <<v>>

\* JavaScript truthiness of an optional number: null, undefined and 0 are falsy.
TruthyNum(v) == v /= NULL /\ v[1] /= 0

\* JavaScript truthiness of an optional string: null, undefined and "" are falsy.
TruthyStr(v) == v /= NULL /\ v[1] /= ""

\* `v || null` on an optional number.
NumOrNull(v) == IF TruthyNum(v) THEN v ELSE NULL

\* `v || null` on an optional string.
StrOrNull(v) == IF TruthyStr(v) THEN v ELSE NULL

\* `v || false` on an optional boolean.
BoolOrFalse(v) == IF v /= NULL /\ v[1] = TRUE THEN TRUE ELSE FALSE

\* ------------------------------------------------- provider responses
\* An OpenSky state vector, by position: s0 icao24, s5 longitude, s6 latitude,
\* s7 barometric altitude, s8 on_ground, s9 velocity.
OpenSkyState(i, lon, lat, alt, og, vel) ==
    [s0 |-> i, s5 |-> lon, s6 |-> lat, s7 |-> alt, s8 |-> og, s9 |-> vel]

\* The state vectors a response is made of, in the order of the response: a
\* report of aircraft "a", one of "c" with no latitude, another of "a" (on the
\* ground, altitude 0 and velocity 0) and one of "b" on the prime meridian.
OpenSkyStates ==
    << OpenSkyState(Some("a"), Some(10), Some(50), Some(9000), Some(FALSE), Some(200)),
       OpenSkyState(Some("c"), Some(20), NULL, NULL, Some(TRUE), NULL),
       OpenSkyState(Some("a"), Some(11), Some(51), Some(0), Some(TRUE), Some(0)),
       OpenSkyState(Some("b"), Some(0), Some(52), Some(11000), Some(FALSE), Some(250)) >>

\* An Aviation Stack flight: aircraft.icao24, departure.longitude,
\* departure.latitude, flight_status.
Flight(i, lon, lat, status) ==
    [icao24 |-> i, dep_longitude |-> lon, dep_latitude |-> lat, flight_status |-> status]

\* The flights a response is made of, in the order of the response.
Flights ==
    << Flight(Some("a"), Some(30), Some(40), "landed"),
       Flight(NULL, Some(33), Some(43), "scheduled"),
       Flight(Some("b"), Some(31), Some(41), "active"),
       Flight(Some("c"), Some(32), Some(42), "active") >>

RECURSIVE Restrict(_, _, _)
\* The elements of all[i..] whose index is in I, in order.
Restrict(all, I, i) ==
    IF i > Len(all) THEN <<>>
    ELSE (IF i \in I THEN <<all[i]>> ELSE <<>>) \o Restrict(all, I, i + 1)

\* The responses made of at most MaxBatch elements of `all`.
Lists(all) ==
    { Restrict(all, I, 1) : I \in { J \in SUBSET (1..Len(all)) : Cardinality(J) <= MaxBatch } }

\* What response.data.states can be.
OpenSkyResponses == Lists(OpenSkyStates)

\* What response.data.data can be.
AviationStackResponses == Lists(Flights)

\* ------------------------------------------------------------ transforms
transformOpenSkyData(state) ==
    [ icao24    |-> state.s0,
      longitude |-> NumOrNull(state.s5),
      latitude  |-> NumOrNull(state.s6),
      altitude  |-> NumOrNull(state.s7),
      on_ground |-> BoolOrFalse(state.s8),
      velocity  |-> NumOrNull(state.s9) ]

\* Mutant of transformAviationStackData: a cruising altitude is filled in.
transformAviationStackDataCruising(flight) ==
    [ icao24    |-> StrOrNull(flight.icao24),
      longitude |-> NumOrNull(flight.dep_longitude),
      latitude  |-> NumOrNull(flight.dep_latitude),
      altitude  |-> Some(10000),
      on_ground |-> (flight.flight_status = "landed"),
      velocity  |-> NULL ]

transformAviationStackData(flight) ==
    [ icao24    |-> StrOrNull(flight.icao24),
      longitude |-> NumOrNull(flight.dep_longitude),
      latitude  |-> NumOrNull(flight.dep_latitude),
      altitude  |-> NULL,
      on_ground |-> (flight.flight_status = "landed"),
      velocity  |-> NULL ]

\* response.data.states.map(state => this.transformOpenSkyData(state))
MapOpenSky(states) == [i \in 1..Len(states) |-> transformOpenSkyData(states[i])]

\* response.data.data.map(flight => this.transformAviationStackData(flight))
MapAviationStack(flights) ==
    [i \in 1..Len(flights) |-> transformAviationStackData(flights[i])]

\* Mutant of Storable: altitude is required too.
StorableWithAltitude(aircraft) ==
    TruthyStr(aircraft.icao24) /\ TruthyNum(aircraft.latitude)
        /\ TruthyNum(aircraft.longitude) /\ TruthyNum(aircraft.altitude)

\* Mutant of Storable: latitude is not tested.
StorableNoLatitude(aircraft) ==
    TruthyStr(aircraft.icao24) /\ TruthyNum(aircraft.longitude)

\* The test of updateDatabase's forEach: only these records get a stmt.run.
Storable(aircraft) ==
    TruthyStr(aircraft.icao24) /\ TruthyNum(aircraft.latitude)
        /\ TruthyNum(aircraft.longitude)

\* The stmt.run calls updateDatabase queues for aircraftData, in order.
RunQueue(aircraftData) == SelectSeq(aircraftData, Storable)

\* ------------------------------------------------------------------ state
VARIABLES
    isRunning,   \* AircraftService.isRunning
    schedules,   \* number of cron tasks registered by cron.schedule
    cycles,      \* one record per call of fetchAircraftData, in call order
    aircraft,    \* the rows of table aircraft
    now,         \* the wall clock, in seconds, when last read
    apiKey,      \* whether process.env.AVIATION_API_KEY is set
    nearby,      \* the GET /nearby request being served
    request,     \* the GET /all, /:icao24 or /stats/overview request being served
    measure,     \* the calls of calculateDistance made for a pair of points
    updateInterval, \* AircraftService.updateInterval, in seconds
    ticks,       \* the seconds at which the cron task has fired, in order
    client       \* the state of the React component App

vars == <<isRunning, schedules, cycles, aircraft, now, apiKey, nearby, request, measure,
          updateInterval, ticks, client>>

\* A fetch cycle.  pc is the await the call is suspended at:
\*   "opensky"        await this.fetchFromOpenSky()              (line 14)
\*   "aviationstack"  await this.fetchFromAviationStack()        (line 23)
\*   "updating"       await this.updateDatabase(...)             (lines 16, 25)
\*   "done"           fetchAircraftData has returned
\* The other fields record what the call has done so far.
NewCycle(by) ==
    [ pc         |-> "opensky",
      startedBy  |-> by,        \* "initial" or "cron"
      source     |-> "none",    \* the adapter whose list went to updateDatabase
      queue      |-> <<>>,      \* stmt.run calls not yet executed
      states     |-> <<>>,      \* response.data.states of OpenSky
      primary    |-> <<>>,      \* what fetchFromOpenSky returned
      primaryErr |-> FALSE,     \* fetchFromOpenSky caught an error
      secCalls   |-> 0,         \* calls of fetchFromAviationStack
      flights    |-> <<>>,      \* response.data.data of Aviation Stack
      secondary  |-> <<>>,      \* what fetchFromAviationStack returned
      secErr     |-> FALSE,     \* fetchFromAviationStack caught an error
      written    |-> <<>>,      \* the records this call has upserted, in order
      storeErr   |-> FALSE,     \* stmt.finalize called back with err
      outcome    |-> "pending" ]

\* No GET /nearby request has been received.
NoRequest ==
    [ pc        |-> "idle",     \* "idle", "scanning" (db.all issued) or "responded"
      lat       |-> NULL,       \* req.query.lat
      lon       |-> NULL,       \* req.query.lon
      radius    |-> NULL,       \* req.query.radius
      latitude  |-> NULL,       \* parseFloat(lat)
      longitude |-> NULL,       \* parseFloat(lon)
      radiusKm  |-> NULL,       \* parseInt(radius)
      calls     |-> 0,          \* calls of getAircraftNearLocation
      rows      |-> {},         \* the rows db.all called back with
      status    |-> 0,          \* the HTTP status of the response
      error     |-> "",         \* the error of a 4xx or 5xx response
      body      |-> NULL ]      \* data of the 200 response

\* No GET /all, /:icao24 or /stats/overview request has been received.
NoRouteRequest ==
    [ route  |-> "",        \* "all", "icao24" or "stats"
      pc     |-> "idle",    \* "idle", "reading" (statements issued) or "responded"
      icao24 |-> NULL,      \* req.params.icao24
      read   |-> NULL,      \* what the statements called back with
      status |-> 0,         \* the HTTP status of the response
      error  |-> "",        \* the error of a 4xx or 5xx response
      body   |-> NULL,      \* data of the 200 response
      stats  |-> NULL ]     \* the stats object of /stats/overview, as last assigned

\* calculateDistance has not been called for a pair of points.
NoMeasure == NULL

\* parseInt(process.env.AIRCRAFT_UPDATE_INTERVAL) || 30 when the variable is
\* not set.
DefaultInterval == 30

\* The component App is not mounted.
NoClient ==
    [ mounted      |-> FALSE,
      userLocation |-> FALSE,    \* whether userLocation is set
      searchRadius |-> 0,        \* the state searchRadius of the last render
      autoRefresh  |-> FALSE,    \* the state autoRefresh of the last render
      loading      |-> FALSE,    \* the state loading of the last render
      locating     |-> FALSE,    \* getCurrentPosition has not called back yet
      inflight     |-> 0,        \* requests of fetchAircraftData not yet answered
      sent         |-> NULL ]    \* the last request of fetchAircraftData

Init ==
    /\ nearby = NoRequest
    /\ request = NoRouteRequest
    /\ measure = NoMeasure
    /\ updateInterval = DefaultInterval
    /\ ticks = <<>>
    /\ client = NoClient
    /\ isRunning = FALSE
    /\ schedules = 0
    /\ cycles = <<>>
    /\ aircraft = {}
    /\ now = 0
    /\ apiKey \in BOOLEAN

\* ------------------------------------------------------------------ store
\* The row INSERT OR REPLACE writes for rec: the listed columns from rec and
\* last_updated from DEFAULT CURRENT_TIMESTAMP (the id column is left out).
Row(rec, ts) ==
    [ icao24       |-> rec.icao24,
      longitude    |-> rec.longitude,
      latitude     |-> rec.latitude,
      altitude     |-> rec.altitude,
      on_ground    |-> rec.on_ground,
      velocity     |-> rec.velocity,
      last_updated |-> ts ]

\* Mutant of InsertOrReplace: a plain INSERT into a table without the UNIQUE
\* constraint.
InsertOnly(rows, rec, ts) == rows \cup { Row(rec, ts) }

\* Mutant of InsertOrReplace: INSERT OR IGNORE keeps the row that is there.
InsertOrIgnore(rows, rec, ts) ==
    IF \E r \in rows : r.icao24 = rec.icao24 THEN rows ELSE rows \cup { Row(rec, ts) }

\* Mutant of InsertOrReplace: an upsert that keeps the old value of a column
\* whose new value is NULL (ON CONFLICT DO UPDATE SET x = COALESCE(new.x, x)).
InsertOrMerge(rows, rec, ts) ==
    LET old == { r \in rows : r.icao24 = rec.icao24 }
        Keep(r) == [ icao24       |-> rec.icao24,
                     longitude    |-> rec.longitude,
                     latitude     |-> rec.latitude,
                     altitude     |-> IF rec.altitude = NULL THEN r.altitude ELSE rec.altitude,
                     on_ground    |-> rec.on_ground,
                     velocity     |-> IF rec.velocity = NULL THEN r.velocity ELSE rec.velocity,
                     last_updated |-> ts ]
    IN (rows \ old) \cup (IF old = {} THEN { Row(rec, ts) } ELSE { Keep(r) : r \in old })

\* Mutant of InsertOrReplace: an existing row is updated in place, column by
\* column, and a reader can come when the position is not yet written.
InsertOrUpdatePart(rows, rec, ts) ==
    LET old == { r \in rows : r.icao24 = rec.icao24 }
        Part(r) == [ Row(rec, ts) EXCEPT !.latitude = r.latitude, !.longitude = r.longitude ]
    IN (rows \ old) \cup (IF old = {} THEN { Row(rec, ts) } ELSE { Part(r) : r \in old })

\* Mutant of InsertOrReplace: the table is emptied before the row is inserted.
ReplaceTable(rows, rec, ts) == { Row(rec, ts) }

\* INSERT OR REPLACE INTO aircraft: icao24 is UNIQUE, so the rows that conflict
\* with the new one are deleted before it is inserted.
InsertOrReplace(rows, rec, ts) ==
    { r \in rows : r.icao24 /= rec.icao24 } \cup { Row(rec, ts) }

\* ---------------------------------------------------------------- actions
\* A call of fetchAircraftData up to its first await.
CallFetchAircraftData(by) ==
    /\ Len(cycles) < MaxCycles
    /\ cycles' = Append(cycles, NewCycle(by))

\* updateDatabase(aircraftData), up to the Promise it returns: the statement is
\* prepared and one stmt.run is queued per storable record.
updateDatabase(cy, from, aircraftData) ==
    [cy EXCEPT !.pc = "updating", !.source = from, !.queue = RunQueue(aircraftData)]

\* Mutant of AfterOpenSky: the keyed provider is asked whenever the key is set,
\* whatever OpenSky returned.
AfterOpenSkyAlsoSecondary(cy, aircraftData) ==
    IF apiKey
    THEN [cy EXCEPT !.pc = "aviationstack", !.secCalls = @ + 1]
    ELSE IF Len(aircraftData) > 0
         THEN updateDatabase(cy, "opensky", aircraftData)
         ELSE [cy EXCEPT !.pc = "done", !.outcome = "nodata"]

\* Mutant of AfterOpenSky: no fallback.
AfterOpenSkyNoFallback(cy, aircraftData) ==
    IF Len(aircraftData) > 0
    THEN updateDatabase(cy, "opensky", aircraftData)
    ELSE [cy EXCEPT !.pc = "done", !.outcome = "nodata"]

\* Mutant of AfterOpenSky: the fallback is decided on the records that pass the
\* test of updateDatabase, not on the list fetchFromOpenSky returned.
AfterOpenSkyOnStorable(cy, aircraftData) ==
    IF Len(RunQueue(aircraftData)) > 0
    THEN updateDatabase(cy, "opensky", aircraftData)
    ELSE IF apiKey
         THEN [cy EXCEPT !.pc = "aviationstack", !.secCalls = @ + 1]
         ELSE [cy EXCEPT !.pc = "done", !.outcome = "nodata"]

\* fetchAircraftData from the return of fetchFromOpenSky to its next await.
AfterOpenSky(cy, aircraftData) ==
    IF Len(aircraftData) > 0
    THEN updateDatabase(cy, "opensky", aircraftData)
    ELSE IF apiKey
         THEN [cy EXCEPT !.pc = "aviationstack", !.secCalls = @ + 1]
         ELSE [cy EXCEPT !.pc = "done", !.outcome = "nodata"]

\* Mutant of AfterAviationStack: an empty list is asked for once more.
AfterAviationStackRetry(cy, aviationData) ==
    IF Len(aviationData) > 0
    THEN updateDatabase(cy, "aviationstack", aviationData)
    ELSE IF cy.secCalls < 2
         THEN [cy EXCEPT !.pc = "aviationstack", !.secCalls = @ + 1]
         ELSE [cy EXCEPT !.pc = "done", !.outcome = "nodata"]

\* Mutant of AfterAviationStack: an empty list throws (aviationData[0] is read),
\* so the cycle ends in the catch.
AfterAviationStackThrows(cy, aviationData) ==
    IF Len(aviationData) > 0
    THEN updateDatabase(cy, "aviationstack", aviationData)
    ELSE [cy EXCEPT !.pc = "done", !.outcome = "error"]

\* fetchAircraftData from the return of fetchFromAviationStack to its next await.
AfterAviationStack(cy, aviationData) ==
    IF Len(aviationData) > 0
    THEN updateDatabase(cy, "aviationstack", aviationData)
    ELSE [cy EXCEPT !.pc = "done", !.outcome = "nodata"]

\* Mutant of StartAircraftUpdates: the schedule is registered and no fetch is
\* started before its first tick.
StartWithoutFetch ==
    IF isRunning
    THEN UNCHANGED vars
    ELSE /\ schedules < MaxSchedules
         /\ isRunning' = TRUE
         /\ schedules' = schedules + 1
         /\ UNCHANGED <<cycles, aircraft, now, apiKey, nearby, request, measure, updateInterval, ticks, client>>

\* startAircraftUpdates(): a second call while running only logs.
StartAircraftUpdates ==
    IF isRunning
    THEN UNCHANGED vars
    ELSE /\ schedules < MaxSchedules
         /\ isRunning' = TRUE
         /\ CallFetchAircraftData("initial")
         /\ schedules' = schedules + 1
         /\ UNCHANGED <<aircraft, now, apiKey, nearby, request, measure, updateInterval, ticks, client>>

\* stopAircraftUpdates()
StopAircraftUpdates ==
    /\ isRunning' = FALSE
    /\ UNCHANGED <<schedules, cycles, aircraft, now, apiKey, nearby, request, measure, updateInterval, ticks, client>>

\* The callback of one cron task: () => { this.fetchAircraftData(); }
CronTick ==
    /\ schedules > 0
    /\ CallFetchAircraftData("cron")
    /\ UNCHANGED <<isRunning, schedules, aircraft, now, apiKey, nearby, request, measure, updateInterval, ticks, client>>

\* OpenSky answers cycle c with the state vectors `states`.
OpenSkyReturns(c, states) ==
    /\ cycles[c].pc = "opensky"
    /\ LET aircraftData == MapOpenSky(states)
       IN cycles' = [cycles EXCEPT ![c] =
              AfterOpenSky([@ EXCEPT !.states = states, !.primary = aircraftData],
                           aircraftData)]
    /\ UNCHANGED <<isRunning, schedules, aircraft, now, apiKey, nearby, request, measure, updateInterval, ticks, client>>

\* The request to OpenSky fails or times out: the catch returns [].
OpenSkyError(c) ==
    /\ cycles[c].pc = "opensky"
    /\ cycles' = [cycles EXCEPT ![c] =
           AfterOpenSky([@ EXCEPT !.primaryErr = TRUE], <<>>)]
    /\ UNCHANGED <<isRunning, schedules, aircraft, now, apiKey, nearby, request, measure, updateInterval, ticks, client>>

\* Aviation Stack answers cycle c with `flights`.
AviationStackReturns(c, flights) ==
    /\ cycles[c].pc = "aviationstack"
    /\ LET aviationData == MapAviationStack(flights)
       IN cycles' = [cycles EXCEPT ![c] =
              AfterAviationStack([@ EXCEPT !.flights = flights,
                                           !.secondary = aviationData], aviationData)]
    /\ UNCHANGED <<isRunning, schedules, aircraft, now, apiKey, nearby, request, measure, updateInterval, ticks, client>>

\* The request to Aviation Stack fails or times out: the catch returns [].
AviationStackError(c) ==
    /\ cycles[c].pc = "aviationstack"
    /\ cycles' = [cycles EXCEPT ![c] =
           AfterAviationStack([@ EXCEPT !.secErr = TRUE], <<>>)]
    /\ UNCHANGED <<isRunning, schedules, aircraft, now, apiKey, nearby, request, measure, updateInterval, ticks, client>>

\* SQLite executes the next stmt.run of cycle c when the wall clock reads ts.
RunStatement(c, ts) ==
    /\ cycles[c].pc = "updating"
    /\ cycles[c].queue /= <<>>
    /\ LET rec == Head(cycles[c].queue)
       IN /\ aircraft' = InsertOrReplace(aircraft, rec, ts)
          /\ cycles' = [cycles EXCEPT ![c].queue = Tail(@),
                                      ![c].written = Append(@, rec)]
    /\ now' = ts
    /\ UNCHANGED <<isRunning, schedules, apiKey, nearby, request, measure, updateInterval, ticks, client>>

\* Mutant of Finalize: the callback of stmt.finalize neither resolves nor
\* rejects the promise, and fetchAircraftData stays at its await.
FinalizeNeverResolves(c) ==
    /\ cycles[c].pc = "updating"
    /\ cycles[c].queue = <<>>
    /\ cycles' = [cycles EXCEPT ![c].pc = "hung"]
    /\ UNCHANGED <<isRunning, schedules, aircraft, now, apiKey, nearby, request, measure, updateInterval, ticks, client>>

\* stmt.finalize calls back without error: updateDatabase resolves and
\* fetchAircraftData logs the update and returns.
Finalize(c) ==
    /\ cycles[c].pc = "updating"
    /\ cycles[c].queue = <<>>
    /\ cycles' = [cycles EXCEPT ![c].pc = "done", ![c].outcome = cycles[c].source]
    /\ UNCHANGED <<isRunning, schedules, aircraft, now, apiKey, nearby, request, measure, updateInterval, ticks, client>>

\* Mutant of FinalizeError: the rejection of updateDatabase is not caught and
\* takes the cron tasks down.
FinalizeErrorUncaught(c) ==
    /\ cycles[c].pc = "updating"
    /\ cycles' = [cycles EXCEPT ![c].pc = "done", ![c].outcome = "error",
                                ![c].queue = <<>>, ![c].storeErr = TRUE]
    /\ schedules' = 0
    /\ isRunning' = FALSE
    /\ UNCHANGED <<aircraft, now, apiKey, nearby, request, measure, updateInterval, ticks, client>>

\* The store fails: the statements still queued are not executed, stmt.finalize
\* calls back with err, updateDatabase rejects and the catch of
\* fetchAircraftData logs the error and returns.
FinalizeError(c) ==
    /\ cycles[c].pc = "updating"
    /\ cycles' = [cycles EXCEPT ![c].pc = "done", ![c].outcome = "error",
                                ![c].queue = <<>>, ![c].storeErr = TRUE]
    /\ UNCHANGED <<isRunning, schedules, aircraft, now, apiKey, nearby, request, measure, updateInterval, ticks, client>>

Next ==
    \/ StartAircraftUpdates
    \/ StopAircraftUpdates
    \/ CronTick
    \/ \E c \in 1..Len(cycles) : \E states \in OpenSkyResponses : OpenSkyReturns(c, states)
    \/ \E c \in 1..Len(cycles) : OpenSkyError(c)
    \/ \E c \in 1..Len(cycles) : \E flights \in AviationStackResponses : AviationStackReturns(c, flights)
    \/ \E c \in 1..Len(cycles) : AviationStackError(c)
    \/ \E c \in 1..Len(cycles) : \E ts \in now..MaxTime : RunStatement(c, ts)
    \/ \E c \in 1..Len(cycles) : Finalize(c)
    \/ \E c \in 1..Len(cycles) : FinalizeError(c)

Spec == Init /\ [][Next]_vars

\* ------------------------------------------------------- GET /nearby
\* Positions of the nearby query lie on one meridian, where the haversine
\* formula gives R * |lat2 - lat1|. Latitudes and distances are whole metres
\* (of arc); longitudes, altitudes and the radius keep the units of the code.

\* Metres in a kilometre: a distance d in the model is d / Km kilometres.
Km == 1000

\* Metres of arc in one degree of latitude, R * pi / 180 with R = 6371 km.
MetresPerDegree == 111195

\* LIMIT of the candidate scan.
ScanLimit == 1000

\* The default of the radius parameter.
DefaultRadius == 100

\* The value parseFloat and parseInt return for text that starts with no number.
NaN == NULL

isNaN(v) == v = NaN

Abs(x) == IF x < 0 THEN 0 - x ELSE x

DigitChars == <<"0", "1", "2", "3", "4", "5", "6", "7", "8", "9">>

IsDigit(ch) == \E d \in 1..10 : DigitChars[d] = ch

DigitValue(ch) == (CHOOSE d \in 1..10 : DigitChars[d] = ch) - 1

\* The decimal digits of the natural number n, as the text of a parameter.
RECURSIVE Chars(_)
Chars(n) ==
    IF n < 10 THEN <<DigitChars[n + 1]>>
    ELSE Append(Chars(n \div 10), DigitChars[(n % 10) + 1])

\* The number of digits of text s from position i on.
RECURSIVE DigitRun(_, _)
DigitRun(s, i) ==
    IF i <= Len(s) /\ IsDigit(s[i]) THEN 1 + DigitRun(s, i + 1) ELSE 0

\* The value of the digits s[i..j], read after the value acc.
RECURSIVE DigitsValue(_, _, _, _)
DigitsValue(s, i, j, acc) ==
    IF i > j THEN acc ELSE DigitsValue(s, i + 1, j, acc * 10 + DigitValue(s[i]))

\* The longest prefix of s that is a number, as parseFloat and parseInt read
\* text made of a sign, digits and letters; what follows the digits is ignored.
NumericPrefix(s) ==
    LET neg   == Len(s) > 0 /\ s[1] = "-"
        first == IF neg THEN 2 ELSE 1
        n     == DigitRun(s, first)
        v     == DigitsValue(s, first, first + n - 1, 0)
    IN  IF n = 0 THEN NaN ELSE Some(IF neg THEN 0 - v ELSE v)

parseFloat(s) == NumericPrefix(s)

\* parseInt(radius): radius is the text of the parameter, or the number
\* DefaultRadius when the parameter is absent.
parseInt(radius) == IF radius = NULL THEN Some(DefaultRadius) ELSE NumericPrefix(radius[1])

\* !p on a query parameter: undefined and "" are falsy.
Not(p) == p = NULL \/ p[1] = <<>>

\* Values of the lat parameter: absent, "", "0", "x", "0n" and a latitude just
\* past the north pole.
LatParams ==
    { NULL, Some(<<>>), Some(<<"0">>), Some(<<"x">>), Some(<<"0", "n">>),
      Some(Chars(90 * MetresPerDegree + 1)) }

\* Values of the lon parameter: absent, "10", "east" and "181".
LonParams ==
    { NULL, Some(<<"1", "0">>), Some(<<"e", "a", "s", "t">>), Some(<<"1", "8", "1">>) }

\* Values of the radius parameter: absent, "50", "250", "x" and "250km".
RadiusParams ==
    { NULL, Some(<<"5", "0">>), Some(<<"2", "5", "0">>), Some(<<"x">>),
      Some(<<"2", "5", "0", "k", "m">>) }

\* Fixed-point unit of the trigonometric values: 1.0 is One.
One == 10000

\* Math.sin(x / 2) * Math.sin(x / 2) for x = toRadians(d), d a multiple of 30
\* degrees in 0..180, rounded to four decimals.
SinSqHalfTable ==
    (0 :> 0) @@ (30 :> 670) @@ (60 :> 2500) @@ (90 :> 5000) @@
    (120 :> 7500) @@ (150 :> 9330) @@ (180 :> One)

\* The angle in 0..180 with the same sin^2(x / 2) as d degrees: the square of
\* the sine is even and has period 360 degrees.
Fold(d) == LET m == Abs(d) % 360 IN IF m > 180 THEN 360 - m ELSE m

\* Math.sin(toRadians(d) / 2) squared.
SinSqHalf(d) == SinSqHalfTable[Fold(d)]

\* Math.cos(toRadians(d)), as 1 - 2 sin^2(d / 2).
Cos(d) == One - 2 * SinSqHalf(d)

\* Whole degrees of a latitude or latitude difference given in metres of arc.
Degrees(metres) == metres \div MetresPerDegree

\* 2 * Math.atan2(Math.sqrt(a), Math.sqrt(1 - a)) in degrees: the angle of
\* 0..180 whose sin^2(x / 2) is a, taken on the 30 degree grid.
CentralAngle(a) ==
    CHOOSE t \in DOMAIN SinSqHalfTable :
        \A u \in DOMAIN SinSqHalfTable :
            \/ Abs(SinSqHalfTable[t] - a) < Abs(SinSqHalfTable[u] - a)
            \/ Abs(SinSqHalfTable[t] - a) = Abs(SinSqHalfTable[u] - a) /\ t <= u

\* Mutant of calculateDistance: dLat is lat2 alone, lat1 is not subtracted.
calculateDistanceFromEquator(lat1, lon1, lat2, lon2) ==
    LET dLat == lat2
        dLon == lon2 - lon1
        a    == SinSqHalf(Degrees(dLat))
                    + (((Cos(Degrees(lat1)) * Cos(Degrees(lat2))) \div One)
                          * SinSqHalf(dLon)) \div One
    IN  IF Fold(dLon) = 0 THEN Abs(dLat) ELSE CentralAngle(a) * MetresPerDegree

\* Mutant of calculateDistance: the cosine of lat1 stands for that of lat2.
calculateDistanceCosLat1(lat1, lon1, lat2, lon2) ==
    LET dLat == lat2 - lat1
        dLon == lon2 - lon1
        a    == SinSqHalf(Degrees(dLat))
                    + (((Cos(Degrees(lat1)) * Cos(Degrees(lat1))) \div One)
                          * SinSqHalf(dLon)) \div One
    IN  IF Fold(dLon) = 0 THEN Abs(dLat) ELSE CentralAngle(a) * MetresPerDegree

\* calculateDistance: the haversine distance, in metres, between (lat1, lon1)
\* and (lat2, lon2); latitudes are in metres of arc, longitudes in degrees.
\* On one meridian a = sin^2(dLat / 2) and the distance is R * |dLat|, kept to
\* the metre; across meridians the latitudes are whole multiples of 30 degrees
\* and the central angle is taken on the 30 degree grid.
calculateDistance(lat1, lon1, lat2, lon2) ==
    LET dLat == lat2 - lat1
        dLon == lon2 - lon1
        a    == SinSqHalf(Degrees(dLat))
                    + (((Cos(Degrees(lat1)) * Cos(Degrees(lat2))) \div One)
                          * SinSqHalf(dLon)) \div One
    IN  IF Fold(dLon) = 0 THEN Abs(dLat) ELSE CentralAngle(a) * MetresPerDegree

\* Mutant of Candidate: the WHERE clause has no on_ground = 0.
CandidateAnyGround(r) ==
    /\ r.altitude /= NULL /\ r.altitude[1] > 0
    /\ r.latitude /= NULL
    /\ r.longitude /= NULL

\* WHERE on_ground = 0 AND altitude > 0 AND latitude IS NOT NULL AND
\* longitude IS NOT NULL
Candidate(r) ==
    /\ r.on_ground = FALSE
    /\ r.altitude /= NULL /\ r.altitude[1] > 0
    /\ r.latitude /= NULL
    /\ r.longitude /= NULL

\* The rows of S with the least last_updated.
Oldest(S) ==
    LET times == { r.last_updated : r \in S }
        least == CHOOSE t \in times : \A u \in times : t <= u
    IN  { r \in S : r.last_updated = least }

\* The sets left when k rows are cut off the end of S ordered by
\* last_updated DESC; the order of rows of equal last_updated is not defined.
RECURSIVE DropOldest(_, _)
DropOldest(S, k) ==
    IF k = 0 THEN {S}
    ELSE UNION { DropOldest(S \ {r}, k - 1) : r \in Oldest(S) }

\* The row sets the SELECT of getAircraftNearLocation can return.
Scan(rows) ==
    LET candidates == { r \in rows : Candidate(r) }
        n == Cardinality(candidates)
    IN  IF n <= ScanLimit THEN {candidates} ELSE DropOldest(candidates, n - ScanLimit)

\* The orders of the rows of G, which all have the same last_updated.
RECURSIVE TieOrders(_)
TieOrders(G) ==
    IF G = {} THEN {<<>>}
    ELSE UNION { { <<r>> \o t : t \in TieOrders(G \ {r}) } : r \in G }

\* The orders ORDER BY last_updated DESC can give the rows of S: the rows
\* newer than a middle last_updated, then the rows of that time in any order,
\* then the older ones.
RECURSIVE ScanOrders(_)
ScanOrders(S) ==
    IF S = {} THEN {<<>>}
    ELSE LET times  == { r.last_updated : r \in S }
             middle == CHOOSE t \in times :
                           Cardinality({ u \in times : u > t }) = Cardinality(times) \div 2
             newer  == { r \in S : r.last_updated > middle }
             same   == { r \in S : r.last_updated = middle }
             older  == { r \in S : r.last_updated < middle }
         IN  { a \o b \o c : a \in ScanOrders(newer), b \in TieOrders(same),
                                c \in ScanOrders(older) }

\* {...row, distance_km: calculateDistance(lat, lon, row.latitude, row.longitude)}
WithDistance(row, lat, lon) ==
    [ icao24       |-> row.icao24,
      longitude    |-> row.longitude,
      latitude     |-> row.latitude,
      altitude     |-> row.altitude,
      on_ground    |-> row.on_ground,
      velocity     |-> row.velocity,
      last_updated |-> row.last_updated,
      distance_km  |-> calculateDistance(lat, lon, row.latitude[1], row.longitude[1]) ]

\* Mutant of Visible: the high-altitude tier ends before 400 km.
VisibleStrict400(a, radiusKm) ==
    \/ a.distance_km <= radiusKm * Km
    \/ a.distance_km <= 200 * Km
    \/ a.altitude[1] > 10500 /\ a.distance_km < 400 * Km
    \/ a.distance_km <= radiusKm * 2 * Km
    \/ a.altitude[1] > 8000 /\ a.distance_km <= 300 * Km

\* Mutant of Visible: the moderate-altitude tier ends before 300 km.
VisibleStrict300(a, radiusKm) ==
    \/ a.distance_km <= radiusKm * Km
    \/ a.distance_km <= 200 * Km
    \/ a.altitude[1] > 10500 /\ a.distance_km <= 400 * Km
    \/ a.distance_km <= radiusKm * 2 * Km
    \/ a.altitude[1] > 8000 /\ a.distance_km < 300 * Km

\* Mutant of Visible: the high-altitude tier starts at 1050 m.
VisibleLowCeiling(a, radiusKm) ==
    \/ a.distance_km <= radiusKm * Km
    \/ a.distance_km <= 200 * Km
    \/ a.altitude[1] > 1050 /\ a.distance_km <= 400 * Km
    \/ a.distance_km <= radiusKm * 2 * Km
    \/ a.altitude[1] > 8000 /\ a.distance_km <= 300 * Km

\* The callback of aircraftWithDistance.filter: the tiers, in the order tried.
Visible(a, radiusKm) ==
    \/ a.distance_km <= radiusKm * Km
    \/ a.distance_km <= 200 * Km
    \/ a.altitude[1] > 10500 /\ a.distance_km <= 400 * Km
    \/ a.distance_km <= radiusKm * 2 * Km
    \/ a.altitude[1] > 8000 /\ a.distance_km <= 300 * Km

\* Mutant of Compare: farthest first.
CompareFarthestFirst(a, b) == b.distance_km - a.distance_km

\* The comparator of visibleAircraft.sort.
Compare(a, b) == a.distance_km - b.distance_km

\* x put into the sorted list t behind every element that does not come after
\* it (Array.prototype.sort is stable).
InsertSorted(t, x) ==
    LET k == Cardinality({ i \in 1..Len(t) : Compare(t[i], x) <= 0 })
    IN  SubSeq(t, 1, k) \o <<x>> \o SubSeq(t, k + 1, Len(t))

\* visibleAircraft.sort((a, b) => a.distance_km - b.distance_km)
RECURSIVE Sort(_)
Sort(s) ==
    IF s = <<>> THEN <<>>
    ELSE InsertSorted(Sort(SubSeq(s, 1, Len(s) - 1)), s[Len(s)])

\* Math.round(d * 100) / 100, in hundredths of a kilometre.
Round2(d) == (d * 100 + Km \div 2) \div Km

\* The object the route makes of one aircraft of the result.
Transformed(plane) ==
    [ icao24       |-> plane.icao24,
      latitude     |-> plane.latitude,
      longitude    |-> plane.longitude,
      altitude     |-> plane.altitude,
      velocity     |-> plane.velocity,
      distance_km  |-> Round2(plane.distance_km),
      last_updated |-> plane.last_updated ]

\* Mutant of Data: search_radius_km is the default radius.
DataDefaultRadius(aircraftList, latitude, longitude, radiusKm) ==
    [ aircraft         |-> [ i \in 1..Len(aircraftList) |-> Transformed(aircraftList[i]) ],
      user_location    |-> [ latitude |-> latitude, longitude |-> longitude ],
      search_radius_km |-> DefaultRadius,
      count            |-> Len(aircraftList) ]

\* The data of the 200 response, for the list getAircraftNearLocation resolved
\* with.
Data(aircraftList, latitude, longitude, radiusKm) ==
    [ aircraft         |-> [ i \in 1..Len(aircraftList) |-> Transformed(aircraftList[i]) ],
      user_location    |-> [ latitude |-> latitude, longitude |-> longitude ],
      search_radius_km |-> radiusKm,
      count            |-> Len(aircraftList) ]


\* The route answers with status and error and calls nothing.
Reject(status, error, lat, lon, radius) ==
    [ NoRequest EXCEPT !.pc = "responded", !.lat = lat, !.lon = lon,
                       !.radius = radius, !.status = status, !.error = error ]

\* GET /nearby?lat=&lon=&radius= up to the await of getAircraftNearLocation,
\* which issues db.all.
NearbyRequest(lat, lon, radius) ==
    /\ nearby.pc = "idle"
    /\ nearby' =
         IF Not(lat) \/ Not(lon)
         THEN Reject(400, "Missing required parameters", lat, lon, radius)
         ELSE LET latitude  == parseFloat(lat[1])
                  longitude == parseFloat(lon[1])
                  radiusKm  == parseInt(radius)
              IN  IF isNaN(latitude) \/ isNaN(longitude) \/ isNaN(radiusKm)
                  THEN Reject(400, "Invalid parameters", lat, lon, radius)
                  ELSE IF \/ latitude[1] < 0 - 90 * MetresPerDegree
                          \/ latitude[1] > 90 * MetresPerDegree
                          \/ longitude[1] < 0 - 180
                          \/ longitude[1] > 180
                  THEN Reject(400, "Invalid coordinates", lat, lon, radius)
                  ELSE [ NoRequest EXCEPT !.pc = "scanning", !.lat = lat, !.lon = lon,
                                          !.radius = radius, !.latitude = latitude,
                                          !.longitude = longitude, !.radiusKm = radiusKm,
                                          !.calls = 1 ]
    /\ UNCHANGED <<isRunning, schedules, cycles, aircraft, now, apiKey, request, measure, updateInterval, ticks, client>>

\* Mutant of NearbyRows: the SELECT is run only when no fetch cycle is in
\* flight.
NearbyRowsWhenIdle(rows) ==
    /\ nearby.pc = "scanning"
    /\ \A c \in 1..Len(cycles) : cycles[c].pc = "done"
    /\ rows \in Scan(aircraft)
    /\ LET lat == nearby.latitude[1]
           lon == nearby.longitude[1]
           radiusKm == nearby.radiusKm[1]
           aircraftWithDistance == { WithDistance(row, lat, lon) : row \in rows }
           visible == { a \in aircraftWithDistance : Visible(a, radiusKm) }
       IN  \E visibleAircraft \in ScanOrders(visible) :
             nearby' = [ nearby EXCEPT !.pc = "responded", !.rows = rows, !.status = 200,
                           !.body = Some(Data(Sort(visibleAircraft), lat, lon, radiusKm)) ]
    /\ UNCHANGED <<isRunning, schedules, cycles, aircraft, now, apiKey, request, measure, updateInterval, ticks, client>>

\* The callback of db.all with the rows of the SELECT: distance, filter, sort,
\* resolve; then the route maps the list and answers 200.
NearbyRows(rows) ==
    /\ nearby.pc = "scanning"
    /\ rows \in Scan(aircraft)
    /\ LET lat == nearby.latitude[1]
           lon == nearby.longitude[1]
           radiusKm == nearby.radiusKm[1]
           aircraftWithDistance == { WithDistance(row, lat, lon) : row \in rows }
           visible == { a \in aircraftWithDistance : Visible(a, radiusKm) }
       IN  \E visibleAircraft \in ScanOrders(visible) :
             nearby' = [ nearby EXCEPT !.pc = "responded", !.rows = rows, !.status = 200,
                           !.body = Some(Data(Sort(visibleAircraft), lat, lon, radiusKm)) ]
    /\ UNCHANGED <<isRunning, schedules, cycles, aircraft, now, apiKey, request, measure, updateInterval, ticks, client>>

\* The callback of db.all with an error: the promise is rejected and the catch
\* of the route answers 500.
NearbyError ==
    /\ nearby.pc = "scanning"
    /\ nearby' = [ nearby EXCEPT !.pc = "responded", !.status = 500,
                                 !.error = "Internal server error" ]
    /\ UNCHANGED <<isRunning, schedules, cycles, aircraft, now, apiKey, request, measure, updateInterval, ticks, client>>

\* A row of the store on the meridian of the queries.
NearRow(i, lat, alt, og, ts) ==
    Row([ icao24 |-> Some(i), longitude |-> Some(10), latitude |-> Some(lat),
          altitude |-> alt, on_ground |-> og, velocity |-> Some(200) ], ts)

\* Distances from the equator, in metres, on and just past each limit of the
\* filter.
Distances ==
    { 100 * Km, 100 * Km + 10, 200 * Km, 200 * Km + 10, 300 * Km, 300 * Km + 10,
      301 * Km, 400 * Km, 400 * Km + 10, 500 * Km, 500 * Km + 10 }

Altitudes ==
    { NULL, Some(0 - 50), Some(5000), Some(8000), Some(8001), Some(10500), Some(10501) }

\* The rows aircraft "a", "b" and "c" can have in the store.
RowsA ==
    { NearRow("a", d, alt, FALSE, 1) : d \in Distances, alt \in Altitudes }
        \cup { NearRow("a", 100 * Km, Some(9000), TRUE, 1) }

RowsB ==
    { NearRow("b", 100 * Km, Some(9000), FALSE, 0),
      NearRow("b", 100 * Km + 4, Some(9000), FALSE, 0),
      NearRow("b", 150 * Km, Some(9000), FALSE, 1),
      NearRow("b", 60 * Km, Some(9000), TRUE, 1) }

RowsC ==
    { NearRow("c", 50 * Km, Some(9000), FALSE, 0),
      NearRow("c", 0 - 120 * Km, Some(9000), FALSE, 1),
      NearRow("c", 100 * Km, Some(9000), FALSE, 1) }

\* n flying aircraft 900 km away, all written at time ts.
FarRows(n, ts) == { NearRow(ToString(i), 900 * Km, Some(9000), FALSE, ts) : i \in 1..n }

\* No row or one row of S.
AtMostOne(S) == {{}} \cup { {r} : r \in S }

\* The stores of the nearby queries: at most one row of each of "a", "b" and
\* "c", and two stores of ScanLimit + 1 flying aircraft, one where the near
\* aircraft is the oldest and one where a far aircraft is.
Stores ==
    { A \cup B \cup C : A \in AtMostOne(RowsA), B \in AtMostOne(RowsB), C \in AtMostOne(RowsC) }
        \cup { FarRows(ScanLimit, 1) \cup { NearRow("a", 100 * Km, Some(9000), FALSE, 0) },
               FarRows(ScanLimit - 1, 1)
                   \cup { NearRow("far", 900 * Km, Some(9000), FALSE, 0),
                          NearRow("a", 100 * Km, Some(9000), FALSE, 1) } }

\* The server with the updates stopped and a store filled by earlier cycles.
InitNearby ==
    /\ nearby = NoRequest
    /\ request = NoRouteRequest
    /\ measure = NoMeasure
    /\ updateInterval = DefaultInterval
    /\ ticks = <<>>
    /\ client = NoClient
    /\ isRunning = FALSE
    /\ schedules = 0
    /\ cycles = <<>>
    /\ aircraft \in Stores
    /\ now = MaxTime
    /\ apiKey = FALSE

NextNearby ==
    \/ \E lat \in LatParams : \E lon \in LonParams : \E radius \in RadiusParams :
            NearbyRequest(lat, lon, radius)
    \/ \E rows \in Scan(aircraft) : NearbyRows(rows)
    \/ NearbyError

SpecNearby == InitNearby /\ [][NextNearby]_vars

\* ------------------------- GET /all, GET /:icao24, GET /stats/overview
\* LIMIT of GET /all.
AllLimit == 100

\* Seconds in the hour of recent_updates.
Hour == 3600

\* Values of the icao24 parameter: two aircraft of the stores and one unknown.
Icao24Params == { Some("a"), Some("b"), Some("zz") }

\* Mutant of Airborne: the WHERE clause has no altitude > 0.
AirborneAnyAltitude(r) == r.on_ground = FALSE

\* WHERE on_ground = 0 AND altitude > 0
Airborne(r) == r.on_ground = FALSE /\ r.altitude /= NULL /\ r.altitude[1] > 0

\* The first n elements of s.
Take(s, n) == SubSeq(s, 1, IF Len(s) < n THEN Len(s) ELSE n)

\* The lists the SELECT of GET /all can return: the airborne rows, ORDER BY
\* last_updated DESC LIMIT 100.
ScanAll(rows) == { Take(order, AllLimit) : order \in ScanOrders({ r \in rows : Airborne(r) }) }

\* The origin_country column, which Row leaves out: known for every aircraft
\* but "c".
OriginCountry(r) ==
    IF r.icao24 = Some("a") THEN Some("France")
    ELSE IF r.icao24 = Some("c") THEN NULL
    ELSE Some("Spain")

\* SELECT origin_country, COUNT(*) ... WHERE origin_country IS NOT NULL GROUP BY
\* origin_country; the order of the groups is not kept.
ByCountry(rows) ==
    { [ origin_country |-> k, count |-> Cardinality({ r \in rows : OriginCountry(r) = k }) ] :
        k \in { OriginCountry(r) : r \in rows } \ {NULL} }

\* The stats object after results.forEach: the counts of the four COUNT(*)
\* statements; for by_country a db.all has only been issued.
StatsObject(rows, clock) ==
    [ total          |-> Cardinality(rows),
      airborne       |-> Cardinality({ r \in rows : Airborne(r) }),
      on_ground      |-> Cardinality({ r \in rows : r.on_ground = TRUE }),
      recent_updates |-> Cardinality({ r \in rows : r.last_updated > clock - Hour }) ]

\* GET /all up to db.all.
AllRequest ==
    /\ request.pc = "idle"
    /\ request' = [ NoRouteRequest EXCEPT !.route = "all", !.pc = "reading" ]
    /\ UNCHANGED <<isRunning, schedules, cycles, aircraft, now, apiKey, nearby, measure, updateInterval, ticks, client>>

\* The callback of db.all of GET /all with rows.
AllRows(rows) ==
    /\ request.route = "all"
    /\ request.pc = "reading"
    /\ rows \in ScanAll(aircraft)
    /\ request' = [ request EXCEPT !.pc = "responded", !.read = Some(rows), !.status = 200,
                      !.body = Some([ aircraft |-> rows, count |-> Len(rows) ]) ]
    /\ UNCHANGED <<isRunning, schedules, cycles, aircraft, now, apiKey, nearby, measure, updateInterval, ticks, client>>

\* The callback of db.all of GET /all with an error.
AllError ==
    /\ request.route = "all"
    /\ request.pc = "reading"
    /\ request' = [ request EXCEPT !.pc = "responded", !.status = 500, !.error = "Database error" ]
    /\ UNCHANGED <<isRunning, schedules, cycles, aircraft, now, apiKey, nearby, measure, updateInterval, ticks, client>>

\* GET /:icao24 up to db.get.
LookupRequest(icao24) ==
    /\ request.pc = "idle"
    /\ request' =
         IF ~TruthyStr(icao24)
         THEN [ NoRouteRequest EXCEPT !.route = "icao24", !.pc = "responded", !.icao24 = icao24,
                                      !.status = 400, !.error = "Missing ICAO24 identifier" ]
         ELSE [ NoRouteRequest EXCEPT !.route = "icao24", !.pc = "reading", !.icao24 = icao24 ]
    /\ UNCHANGED <<isRunning, schedules, cycles, aircraft, now, apiKey, nearby, measure, updateInterval, ticks, client>>

\* Mutant of LookupRow: the callback does not test !row and answers 200 with
\* whatever db.get gave.
LookupRowUnchecked ==
    /\ request.route = "icao24"
    /\ request.pc = "reading"
    /\ LET found == { r \in aircraft : r.icao24 = request.icao24 }
       IN  IF found = {}
           THEN request' = [ request EXCEPT !.pc = "responded", !.status = 200,
                                            !.body = Some([ aircraft |-> NULL ]) ]
           ELSE \E row \in found :
                  request' = [ request EXCEPT !.pc = "responded", !.read = Some(row),
                                 !.status = 200, !.body = Some([ aircraft |-> row ]) ]
    /\ UNCHANGED <<isRunning, schedules, cycles, aircraft, now, apiKey, nearby, measure, updateInterval, ticks, client>>

\* The callback of db.get of GET /:icao24: with no row 404, with the row 200.
LookupRow ==
    /\ request.route = "icao24"
    /\ request.pc = "reading"
    /\ LET found == { r \in aircraft : r.icao24 = request.icao24 }
       IN  IF found = {}
           THEN request' = [ request EXCEPT !.pc = "responded", !.status = 404,
                                            !.error = "Aircraft not found" ]
           ELSE \E row \in found :
                  request' = [ request EXCEPT !.pc = "responded", !.read = Some(row),
                                 !.status = 200, !.body = Some([ aircraft |-> row ]) ]
    /\ UNCHANGED <<isRunning, schedules, cycles, aircraft, now, apiKey, nearby, measure, updateInterval, ticks, client>>

\* The callback of db.get of GET /:icao24 with an error.
LookupError ==
    /\ request.route = "icao24"
    /\ request.pc = "reading"
    /\ request' = [ request EXCEPT !.pc = "responded", !.status = 500, !.error = "Database error" ]
    /\ UNCHANGED <<isRunning, schedules, cycles, aircraft, now, apiKey, nearby, measure, updateInterval, ticks, client>>

\* GET /stats/overview up to the await of Promise.all: five db.get issued.
StatsRequest ==
    /\ request.pc = "idle"
    /\ request' = [ NoRouteRequest EXCEPT !.route = "stats", !.pc = "reading" ]
    /\ UNCHANGED <<isRunning, schedules, cycles, aircraft, now, apiKey, nearby, measure, updateInterval, ticks, client>>

\* The five db.get have called back: results.forEach assigns the four counts
\* and issues db.all for by_country, then res.json sends the stats object as
\* it is.
StatsRows ==
    /\ request.route = "stats"
    /\ request.pc = "reading"
    /\ LET stats == StatsObject(aircraft, now)
       IN  request' = [ request EXCEPT !.pc = "responded", !.read = Some(aircraft), !.status = 200,
                          !.stats = Some(stats), !.body = Some([ stats |-> stats ]) ]
    /\ UNCHANGED <<isRunning, schedules, cycles, aircraft, now, apiKey, nearby, measure, updateInterval, ticks, client>>

\* One of the five db.get called back with an error: the catch answers 500.
StatsError ==
    /\ request.route = "stats"
    /\ request.pc = "reading"
    /\ request' = [ request EXCEPT !.pc = "responded", !.status = 500,
                                   !.error = "Internal server error" ]
    /\ UNCHANGED <<isRunning, schedules, cycles, aircraft, now, apiKey, nearby, measure, updateInterval, ticks, client>>

\* The callback of the db.all for by_country, after the response was sent:
\* stats.by_country is assigned.
StatsCountryRows ==
    /\ request.route = "stats"
    /\ request.pc = "responded"
    /\ request.status = 200
    /\ request' = [ request EXCEPT !.pc = "closed",
                      !.stats = Some(request.stats[1] @@ [ by_country |-> ByCountry(aircraft) ]) ]
    /\ UNCHANGED <<isRunning, schedules, cycles, aircraft, now, apiKey, nearby, measure, updateInterval, ticks, client>>

\* The callback of the db.all for by_country with an error: nothing is assigned.
StatsCountryError ==
    /\ request.route = "stats"
    /\ request.pc = "responded"
    /\ request.status = 200
    /\ request' = [ request EXCEPT !.pc = "closed" ]
    /\ UNCHANGED <<isRunning, schedules, cycles, aircraft, now, apiKey, nearby, measure, updateInterval, ticks, client>>

\* n airborne aircraft, the i-th written at time i.
AirborneRows(n) == { NearRow(ToString(i), 100 * Km, Some(9000), FALSE, i) : i \in 1..n }

\* The stores of the other routes: at most one row of each of "a", "b" and
\* "c", and a store of AllLimit + 1 airborne aircraft, one aircraft on the
\* ground and one without altitude, both written last.
RouteStores ==
    { A \cup B \cup C : A \in AtMostOne(RowsA), B \in AtMostOne(RowsB), C \in AtMostOne(RowsC) }
        \cup { AirborneRows(AllLimit + 1)
                   \cup { NearRow("g", 60 * Km, Some(9000), TRUE, AllLimit + 2),
                          NearRow("n", 60 * Km, NULL, FALSE, AllLimit + 2) } }

\* The server with the updates stopped and a store filled by earlier cycles,
\* an hour and some time after the first writes.
InitRoutes ==
    /\ nearby = NoRequest
    /\ request = NoRouteRequest
    /\ measure = NoMeasure
    /\ updateInterval = DefaultInterval
    /\ ticks = <<>>
    /\ client = NoClient
    /\ isRunning = FALSE
    /\ schedules = 0
    /\ cycles = <<>>
    /\ aircraft \in RouteStores
    /\ now = Hour + AllLimit \div 2
    /\ apiKey = FALSE

NextRoutes ==
    \/ AllRequest
    \/ \E rows \in ScanAll(aircraft) : AllRows(rows)
    \/ AllError
    \/ \E icao24 \in Icao24Params : LookupRequest(icao24)
    \/ LookupRow
    \/ LookupError
    \/ StatsRequest
    \/ StatsRows
    \/ StatsError
    \/ StatsCountryRows
    \/ StatsCountryError

SpecRoutes == InitRoutes /\ [][NextRoutes]_vars

\* ------------------------------------- fetch cycles and GET /nearby together
\* The state vectors of the responses while requests are served: aircraft "a",
\* aircraft "b", and "a" again at another position, altitude and speed; all on
\* the meridian of the queries.
ServeStates ==
    << OpenSkyState(Some("a"), Some(10), Some(50), Some(9000), Some(FALSE), Some(200)),
       OpenSkyState(Some("b"), Some(10), Some(70), Some(11000), Some(FALSE), Some(250)),
       OpenSkyState(Some("a"), Some(10), Some(60), Some(9500), Some(FALSE), Some(210)) >>

\* What response.data.states can be while requests are served.
ServeResponses == Lists(ServeStates)

\* What response.data.data can be while requests are served.
ServeFlightResponses == Lists(<< Flight(Some("c"), Some(10), Some(80), "active") >>)

\* The server started with an empty table.
InitServe == Init

\* The fetch cycles of the scheduler and one GET /nearby?lat=0&lon=10, in any
\* interleaving of their steps.
NextServe ==
    \/ StartAircraftUpdates
    \/ CronTick
    \/ \E c \in 1..Len(cycles) : \E states \in ServeResponses : OpenSkyReturns(c, states)
    \/ \E c \in 1..Len(cycles) : OpenSkyError(c)
    \/ \E c \in 1..Len(cycles) : \E flights \in ServeFlightResponses : AviationStackReturns(c, flights)
    \/ \E c \in 1..Len(cycles) : AviationStackError(c)
    \/ \E c \in 1..Len(cycles) : \E ts \in now..MaxTime : RunStatement(c, ts)
    \/ \E c \in 1..Len(cycles) : Finalize(c)
    \/ \E c \in 1..Len(cycles) : FinalizeError(c)
    \/ NearbyRequest(Some(<<"0">>), Some(<<"1", "0">>), NULL)
    \/ \E rows \in Scan(aircraft) : NearbyRows(rows)
    \/ NearbyError

SpecServe == InitServe /\ [][NextServe]_vars

\* The call of cycle c to OpenSky is answered or fails (at the latest when
\* its timeout of 10 s expires).
OpenSkySettles(c) ==
    /\ c <= Len(cycles)
    /\ \/ \E states \in ServeResponses : OpenSkyReturns(c, states)
       \/ OpenSkyError(c)

\* The call of cycle c to Aviation Stack is answered or fails (at the latest
\* when its timeout of 10 s expires).
AviationStackSettles(c) ==
    /\ c <= Len(cycles)
    /\ \/ \E flights \in ServeFlightResponses : AviationStackReturns(c, flights)
       \/ AviationStackError(c)

\* SQLite executes the next statement queued by cycle c.
StoreRuns(c) ==
    /\ c <= Len(cycles)
    /\ \E ts \in now..MaxTime : RunStatement(c, ts)

\* SQLite finalizes the statement of cycle c.
StoreFinalizes(c) == c <= Len(cycles) /\ Finalize(c)

\* Every provider call settles and the store executes what is queued.
Fairness ==
    \A c \in 1..MaxCycles :
        /\ WF_vars(OpenSkySettles(c))
        /\ WF_vars(AviationStackSettles(c))
        /\ WF_vars(StoreRuns(c))
        /\ WF_vars(StoreFinalizes(c))

SpecFair == InitServe /\ [][NextServe]_vars /\ Fairness

\* ------------------------------------------------------- distance
\* calculateDistance as a function of its own: the points measured are those of
\* the 30 degree grid of the sphere and those of the meridian of 10 degrees
\* east that the nearby query uses.

Point(lat, lon) == [lat |-> lat, lon |-> lon]

\* Every valid point whose latitude and longitude are multiples of 30 degrees.
GridPoints ==
    { Point(i * 30 * MetresPerDegree, j * 30) : i \in -3..3, j \in -6..6 }

\* Points of the meridian of 10 degrees east, to the metre.
MeridianPoints ==
    { Point(m, 10) : m \in { 0 - 90 * MetresPerDegree, 0 - 250 * Km - 1, 0, 1,
                              50 * Km, 300 * Km, 90 * MetresPerDegree } }

\* The distances calculateDistance returns for the points p and q: from p to
\* q, from q to p, and from p to itself.
Measure(p, q) ==
    /\ measure = NoMeasure
    /\ measure' = Some([p  |-> p,
                        q  |-> q,
                        pq |-> calculateDistance(p.lat, p.lon, q.lat, q.lon),
                        qp |-> calculateDistance(q.lat, q.lon, p.lat, p.lon),
                        pp |-> calculateDistance(p.lat, p.lon, p.lat, p.lon)])
    /\ UNCHANGED <<isRunning, schedules, cycles, aircraft, now, apiKey, nearby, request,
                   updateInterval, ticks, client>>

InitDistance ==
    /\ nearby = NoRequest
    /\ request = NoRouteRequest
    /\ measure = NoMeasure
    /\ updateInterval = DefaultInterval
    /\ ticks = <<>>
    /\ client = NoClient
    /\ isRunning = FALSE
    /\ schedules = 0
    /\ cycles = <<>>
    /\ aircraft = {}
    /\ now = 0
    /\ apiKey = FALSE

NextDistance ==
    \/ \E p \in GridPoints : \E q \in GridPoints : Measure(p, q)
    \/ \E p \in MeridianPoints : \E q \in MeridianPoints : Measure(p, q)

SpecDistance == InitDistance /\ [][NextDistance]_vars

\* ------------------------------------------------------- fallback and queries
\* The fetch cycles with the key of Aviation Stack set, and the two queries
\* that read positions: aircraft "a" is reported by OpenSky at latitude 50 and
\* by Aviation Stack, as a flight that departed from latitude 60.

\* The state vectors a response of OpenSky is made of.
FallbackStates ==
    << OpenSkyState(Some("a"), Some(10), Some(50), Some(9000), Some(FALSE), Some(200)) >>

\* The flights a response of Aviation Stack is made of.
FallbackFlights == << Flight(Some("a"), Some(10), Some(60), "active") >>

InitFallback ==
    /\ nearby = NoRequest
    /\ request = NoRouteRequest
    /\ measure = NoMeasure
    /\ updateInterval = DefaultInterval
    /\ ticks = <<>>
    /\ client = NoClient
    /\ isRunning = FALSE
    /\ schedules = 0
    /\ cycles = <<>>
    /\ aircraft = {}
    /\ now = 0
    /\ apiKey = TRUE

\* The fetch cycles, one GET /nearby?lat=0&lon=10 and one GET /all, in any
\* interleaving of their steps.
NextFallback ==
    \/ StartAircraftUpdates
    \/ CronTick
    \/ \E c \in 1..Len(cycles) : \E states \in Lists(FallbackStates) : OpenSkyReturns(c, states)
    \/ \E c \in 1..Len(cycles) : OpenSkyError(c)
    \/ \E c \in 1..Len(cycles) : \E flights \in Lists(FallbackFlights) : AviationStackReturns(c, flights)
    \/ \E c \in 1..Len(cycles) : AviationStackError(c)
    \/ \E c \in 1..Len(cycles) : \E ts \in now..MaxTime : RunStatement(c, ts)
    \/ \E c \in 1..Len(cycles) : Finalize(c)
    \/ \E c \in 1..Len(cycles) : FinalizeError(c)
    \/ NearbyRequest(Some(<<"0">>), Some(<<"1", "0">>), NULL)
    \/ \E rows \in Scan(aircraft) : NearbyRows(rows)
    \/ NearbyError
    \/ AllRequest
    \/ \E rows \in ScanAll(aircraft) : AllRows(rows)
    \/ AllError

SpecFallback == InitFallback /\ [][NextFallback]_vars

\* ------------------------------------------------------- cron schedule
\* The schedule of startAircraftUpdates against the wall clock: `now` is the
\* second of the clock, counted from the start of a minute, and the task
\* registered with the expression */N * * * * * fires at the seconds of the
\* minute that are multiples of N.

\* The clock runs from second 0 to second MaxSeconds.
MaxSeconds == 130
\* Firings of the cron task in one run of the model.
MaxTicks == 3

\* Values of process.env.AIRCRAFT_UPDATE_INTERVAL: not set, "20", "45", "7",
\* "0" and "x".
IntervalEnv ==
    { NULL, Some(<<"2", "0">>), Some(<<"4", "5">>), Some(<<"7">>), Some(<<"0">>),
      Some(<<"x">>) }

\* parseInt(process.env.AIRCRAFT_UPDATE_INTERVAL) || 30: NaN and 0 are falsy.
UpdateInterval(env) ==
    LET n == IF env = NULL THEN NaN ELSE NumericPrefix(env[1])
    IN  IF TruthyNum(n) THEN n[1] ELSE DefaultInterval

\* The seconds of the minute the field */n stands for: the values of 0-59
\* that are multiples of n.
CronSeconds(n) == { k \in 0..59 : k % n = 0 }

\* Whether the task of expression */n * * * * * fires at `second`.
CronMatches(second, n) == (second % 60) \in CronSeconds(n)

\* The clock reaches its next second; if the expression matches it, every
\* registered task runs its callback, which calls fetchAircraftData.
Second ==
    /\ now < MaxSeconds
    /\ now' = now + 1
    /\ IF schedules > 0 /\ CronMatches(now + 1, updateInterval)
       THEN /\ Len(ticks) < MaxTicks
            /\ ticks' = Append(ticks, now + 1)
            /\ cycles' = cycles \o [i \in 1..schedules |-> NewCycle("cron")]
       ELSE UNCHANGED <<ticks, cycles>>
    /\ UNCHANGED <<isRunning, schedules, aircraft, apiKey, nearby, request, measure,
                   updateInterval, client>>

InitCron ==
    /\ nearby = NoRequest
    /\ request = NoRouteRequest
    /\ measure = NoMeasure
    /\ updateInterval \in { UpdateInterval(env) : env \in IntervalEnv }
    /\ ticks = <<>>
    /\ client = NoClient
    /\ isRunning = FALSE
    /\ schedules = 0
    /\ cycles = <<>>
    /\ aircraft = {}
    /\ now = 0
    /\ apiKey = FALSE

NextCron ==
    \/ StartAircraftUpdates
    \/ Second

SpecCron == InitCron /\ [][NextCron]_vars

\* ------------------------------------------------------- client
\* The component App (App.tsx). A handler runs with the state of the render it
\* was created in: a set... call inside it changes the state of the next
\* render, not the variables the handler reads. Between two events the
\* component has rendered again, so the handlers of the page read the state
\* of the record `client`; getUserLocation is kept by useCallback with no
\* dependencies and reads the state of the first render for ever.

\* Requests of fetchAircraftData that can wait for their answer together.
MaxInflight == 2

\* useState(100): the search radius of the first render.
InitialRadius == 100

\* Values of the slider (min 25, max 500).
SliderValues == {25, 100, 250, 500}

\* fetchAircraftData(lat, lon) of a render whose searchRadius is radius, up to
\* its await: setLoading(true) and the GET /api/aircraft/nearby request.
\* `by` is the caller and `selected` the radius the user has selected.
ClientFetchAircraftData(c, by, radius, selected) ==
    [ c EXCEPT !.loading = TRUE,
               !.inflight = @ + 1,
               !.sent = Some([ by |-> by, radius |-> radius, selected |-> selected ]) ]

\* The first render and its effects: getUserLocation() asks for the position;
\* the auto-refresh effect returns at once, userLocation being null.
Mounted ==
    [ mounted      |-> TRUE,
      userLocation |-> FALSE,
      searchRadius |-> InitialRadius,
      autoRefresh  |-> TRUE,
      loading      |-> TRUE,
      locating     |-> TRUE,
      inflight     |-> 0,
      sent         |-> NULL ]

\* The button "Get My Location": getUserLocation().
GetUserLocation ==
    /\ ~client.userLocation
    /\ ~client.locating
    /\ client' = [ client EXCEPT !.loading = TRUE, !.locating = TRUE ]
    /\ UNCHANGED <<isRunning, schedules, cycles, aircraft, now, apiKey, nearby, request,
                   measure, updateInterval, ticks>>

\* The success callback of getCurrentPosition: the location is set and
\* fetchAircraftData of the first render is called.
PositionFound ==
    /\ client.locating
    /\ client.inflight < MaxInflight
    /\ client' = ClientFetchAircraftData(
                     [ client EXCEPT !.locating = FALSE, !.userLocation = TRUE ],
                     "location", InitialRadius, client.searchRadius)
    /\ UNCHANGED <<isRunning, schedules, cycles, aircraft, now, apiKey, nearby, request,
                   measure, updateInterval, ticks>>

\* The error callback of getCurrentPosition.
PositionError ==
    /\ client.locating
    /\ client' = [ client EXCEPT !.locating = FALSE, !.loading = FALSE ]
    /\ UNCHANGED <<isRunning, schedules, cycles, aircraft, now, apiKey, nearby, request,
                   measure, updateInterval, ticks>>

\* The button "Refresh Aircraft", disabled while loading.
HandleRefresh ==
    /\ client.userLocation
    /\ ~client.loading
    /\ client.inflight < MaxInflight
    /\ client' = ClientFetchAircraftData(client, "refresh", client.searchRadius,
                                         client.searchRadius)
    /\ UNCHANGED <<isRunning, schedules, cycles, aircraft, now, apiKey, nearby, request,
                   measure, updateInterval, ticks>>

\* The slider is moved to newRadius: setSearchRadius(newRadius), then, with a
\* location, fetchAircraftData of the render the handler belongs to.
HandleRadiusChange(newRadius) ==
    /\ client.mounted
    /\ newRadius /= client.searchRadius
    /\ IF client.userLocation
       THEN /\ client.inflight < MaxInflight
            /\ client' = [ ClientFetchAircraftData(client, "radius", client.searchRadius,
                                                   newRadius)
                             EXCEPT !.searchRadius = newRadius ]
       ELSE client' = [ client EXCEPT !.searchRadius = newRadius ]
    /\ UNCHANGED <<isRunning, schedules, cycles, aircraft, now, apiKey, nearby, request,
                   measure, updateInterval, ticks>>

\* The checkbox "Auto-refresh every 30 seconds".
SetAutoRefresh(checked) ==
    /\ client.mounted
    /\ checked /= client.autoRefresh
    /\ client' = [ client EXCEPT !.autoRefresh = checked ]
    /\ UNCHANGED <<isRunning, schedules, cycles, aircraft, now, apiKey, nearby, request,
                   measure, updateInterval, ticks>>

\* The callback of the setInterval of the auto-refresh effect, which is set up
\* again whenever autoRefresh, userLocation or searchRadius changes.
AutoRefresh ==
    /\ client.autoRefresh
    /\ client.userLocation
    /\ client.inflight < MaxInflight
    /\ client' = ClientFetchAircraftData(client, "interval", client.searchRadius,
                                         client.searchRadius)
    /\ UNCHANGED <<isRunning, schedules, cycles, aircraft, now, apiKey, nearby, request,
                   measure, updateInterval, ticks>>

\* A request is answered or fails: the finally of fetchAircraftData.
ClientResponse ==
    /\ client.inflight > 0
    /\ client' = [ client EXCEPT !.inflight = @ - 1, !.loading = FALSE ]
    /\ UNCHANGED <<isRunning, schedules, cycles, aircraft, now, apiKey, nearby, request,
                   measure, updateInterval, ticks>>

InitClient ==
    /\ nearby = NoRequest
    /\ request = NoRouteRequest
    /\ measure = NoMeasure
    /\ updateInterval = DefaultInterval
    /\ ticks = <<>>
    /\ client = Mounted
    /\ isRunning = FALSE
    /\ schedules = 0
    /\ cycles = <<>>
    /\ aircraft = {}
    /\ now = 0
    /\ apiKey = FALSE

NextClient ==
    \/ GetUserLocation
    \/ PositionFound
    \/ PositionError
    \/ HandleRefresh
    \/ \E newRadius \in SliderValues : HandleRadiusChange(newRadius)
    \/ \E checked \in BOOLEAN : SetAutoRefresh(checked)
    \/ AutoRefresh
    \/ ClientResponse

SpecClient == InitClient /\ [][NextClient]_vars

\* ------------------------------------------------------- claim vocabulary
Cycles == 1..Len(cycles)

\* The fetch cycles in flight: fetchAircraftData called and not yet returned.
InFlight == { c \in Cycles : cycles[c].pc /= "done" }

\* An observation that has icao24, latitude and longitude.
Complete(rec) == rec.icao24 /= NULL /\ rec.latitude /= NULL /\ rec.longitude /= NULL

\* The list cycle c handed to updateDatabase.
Batch(c) ==
    IF cycles[c].source = "opensky" THEN cycles[c].primary
    ELSE IF cycles[c].source = "aviationstack" THEN cycles[c].secondary
    ELSE <<>>

\* Cycle c has passed the await of fetchFromOpenSky.
PrimaryReturned(c) == cycles[c].pc /= "opensky"

\* Cycle c has returned from an updateDatabase that resolved.
Updated(c) == cycles[c].outcome \in {"opensky", "aviationstack"}

\* p is a prefix of q.
IsPrefix(p, q) == Len(p) <= Len(q) /\ \A i \in 1..Len(p) : p[i] = q[i]

\* ------------------------------------------------------------------ claims
\* C1: at most one fetch cycle is in flight at any time (a tick that fires
\* while the previous fetchAircraftData has not finished starts no new fetch).
C1_SingleFlight == Cardinality(InFlight) <= 1

\* C2: in a cycle where OpenSky returns a non-empty list, Aviation Stack is not
\* called, only records of that list are written, in order, and once
\* updateDatabase has resolved all its complete records have been written; in
\* every cycle the records written come from one adapter's list only.
C2_PrimaryStops ==
    \A c \in Cycles :
        /\ IsPrefix(cycles[c].written, SelectSeq(Batch(c), Complete))
        /\ (PrimaryReturned(c) /\ Len(cycles[c].primary) > 0) =>
              /\ cycles[c].secCalls = 0
              /\ cycles[c].source = "opensky"
              /\ cycles[c].outcome = "opensky" =>
                    cycles[c].written = SelectSeq(cycles[c].primary, Complete)

C2_Witness ==
    \E c \in Cycles :
        /\ apiKey
        /\ cycles[c].outcome = "opensky"
        /\ Len(cycles[c].written) >= 2

\* C3 as stated: in a finished cycle where OpenSky failed, Aviation Stack was
\* called and, unless the store failed, its complete records were written.
C3_FallbackAlways ==
    \A c \in Cycles :
        (cycles[c].pc = "done" /\ cycles[c].primaryErr) =>
            /\ cycles[c].secCalls = 1
            /\ ~cycles[c].storeErr =>
                  cycles[c].written = SelectSeq(cycles[c].secondary, Complete)

\* C3 as amended: in a cycle where OpenSky failed and AVIATION_API_KEY is set,
\* Aviation Stack is called, and once the cycle has finished without a store
\* failure its complete records have been written.
C3_FallbackWithKey ==
    \A c \in Cycles :
        (PrimaryReturned(c) /\ cycles[c].primaryErr /\ apiKey) =>
            /\ cycles[c].secCalls = 1
            /\ (cycles[c].pc = "done" /\ ~cycles[c].storeErr) =>
                  cycles[c].written = SelectSeq(cycles[c].secondary, Complete)

C3_Witness ==
    \E c \in Cycles :
        /\ cycles[c].primaryErr
        /\ cycles[c].outcome = "aviationstack"
        /\ Len(cycles[c].written) >= 1

\* C4: in a finished cycle where OpenSky returned an empty list and Aviation
\* Stack returned 3 complete records, exactly those 3 records were written and
\* the cycle ended with the update logged, not in the catch (the store not
\* having failed).
C4_EmptyPrimaryThreeSecondary ==
    \A c \in Cycles :
        ( /\ cycles[c].pc = "done"
          /\ ~cycles[c].primaryErr
          /\ cycles[c].primary = <<>>
          /\ Len(cycles[c].secondary) = 3
          /\ \A i \in 1..3 : Complete(cycles[c].secondary[i])
          /\ ~cycles[c].storeErr ) =>
            /\ Len(cycles[c].written) = 3
            /\ cycles[c].written = cycles[c].secondary
            /\ cycles[c].outcome = "aviationstack"

C4_Witness ==
    \E c \in Cycles :
        /\ cycles[c].pc = "done"
        /\ ~cycles[c].primaryErr
        /\ cycles[c].primary = <<>>
        /\ Len(cycles[c].secondary) = 3
        /\ Len(cycles[c].written) = 3
        /\ \A i \in 1..3 : \E r \in aircraft : r.icao24 = cycles[c].written[i].icao24

\* C5: a finished cycle in which both adapters failed or returned an empty list
\* (or the second was not configured) has written nothing and ended normally,
\* with "no data" logged.
C5_NoDataNoWrite ==
    \A c \in Cycles :
        (cycles[c].pc = "done" /\ cycles[c].primary = <<>> /\ cycles[c].secondary = <<>>) =>
            /\ cycles[c].written = <<>>
            /\ cycles[c].outcome = "nodata"

C5_Witness ==
    \E c \in Cycles :
        /\ cycles[c].pc = "done"
        /\ cycles[c].primaryErr
        /\ cycles[c].secErr
        /\ aircraft /= {}

\* The columns of table aircraft that INSERT OR REPLACE takes from the record.
DataFields == {"icao24", "longitude", "latitude", "altitude", "on_ground", "velocity"}

\* Row r holds exactly the data of observation rec.
SameData(r, rec) == \A f \in DataFields : r[f] = rec[f]

\* The rows of table t for the icao24 of rec.
RowsFor(t, rec) == { r \in t : r.icao24 = rec.icao24 }

\* This step executes the next stmt.run of cycle c.
IsRun(c) ==
    /\ cycles[c].pc = "updating"
    /\ cycles[c].queue /= <<>>
    /\ cycles'[c].written = Append(cycles[c].written, Head(cycles[c].queue))

\* The records of key k that cycle c has written.
WrittenFor(c, k) == { cycles[c].written[i] : i \in { j \in 1..Len(cycles[c].written) : cycles[c].written[j].icao24 = k } }

\* C6: the aircraft table holds at most one row per icao24.
C6_OneRowPerIcao24 ==
    \A r1, r2 \in aircraft : r1.icao24 = r2.icao24 => r1 = r2

\* Two overlapping cycles have both written a record of the same icao24.
C6_Witness ==
    \E c1, c2 \in Cycles :
        /\ c1 /= c2
        /\ cycles[c1].pc = "updating"
        /\ cycles[c2].pc = "updating"
        /\ \E k \in {Some("a"), Some("b"), Some("c")} :
              WrittenFor(c1, k) /= {} /\ WrittenFor(c2, k) /= {}

\* C7: a statement that writes an observation whose data are already the row of
\* its icao24 leaves exactly one row for that icao24, holding the observation's
\* data, with last_updated the time of this write.
C7_UpsertIdempotent ==
    [][ \A c \in Cycles :
          IsRun(c) =>
            LET rec == Head(cycles[c].queue)
            IN (\E r \in aircraft : SameData(r, rec)) =>
                  /\ Cardinality(RowsFor(aircraft', rec)) = 1
                  /\ \A r \in RowsFor(aircraft', rec) :
                        SameData(r, rec) /\ r.last_updated = now' ]_vars

\* The same observation has been written twice, by two cycles, the second time
\* at a later clock reading, and nothing else was written for its icao24.
C7_Witness ==
    \E c1, c2 \in Cycles : \E k \in {Some("a"), Some("b"), Some("c")} :
        /\ c1 /= c2
        /\ WrittenFor(c1, k) /= {}
        /\ WrittenFor(c1, k) = WrittenFor(c2, k)
        /\ Cardinality(WrittenFor(c1, k)) = 1
        /\ \E r \in aircraft : r.icao24 = k /\ r.last_updated = 1
        /\ cycles[c1].pc = "done"
        /\ cycles[c1].primaryErr = FALSE
        /\ now = 1

\* C8: a statement that writes an observation for an icao24 that has a row
\* leaves, for that icao24, only rows whose every data column is the
\* observation's value; no column keeps a value of the old row that differs
\* from the observation's.
C8_FullReplace ==
    [][ \A c \in Cycles :
          IsRun(c) =>
            LET rec == Head(cycles[c].queue)
            IN \A old \in RowsFor(aircraft, rec) :
                  /\ RowsFor(aircraft', rec) /= {}
                  /\ \A r \in RowsFor(aircraft', rec) : \A f \in DataFields :
                        /\ r[f] = rec[f]
                        /\ old[f] /= rec[f] => r[f] /= old[f] ]_vars

\* A cycle wrote two different observations of one icao24, the second with no
\* altitude, and the row holds the second.
C8_Witness ==
    \E c \in Cycles :
        /\ Len(cycles[c].written) >= 2
        /\ cycles[c].written[1].icao24 = cycles[c].written[2].icao24
        /\ cycles[c].written[1].altitude /= NULL
        /\ cycles[c].written[2].altitude = NULL
        /\ \E r \in aircraft : SameData(r, cycles[c].written[2])

\* C9: no record without icao24, latitude or longitude is ever written or
\* stored, and a cycle whose updateDatabase has resolved has written every
\* other record of its list.
C9_RejectIncomplete ==
    /\ \A r \in aircraft : Complete(r)
    /\ \A c \in Cycles :
          /\ \A i \in 1..Len(cycles[c].written) : Complete(cycles[c].written[i])
          /\ Updated(c) => cycles[c].written = SelectSeq(Batch(c), Complete)

\* A cycle's list had a record without latitude (or icao24) before a complete
\* one, and the cycle wrote the complete ones before and after it.
C9_Witness ==
    \E c \in Cycles :
        /\ Updated(c)
        /\ Len(Batch(c)) = 3
        /\ Len(cycles[c].written) = 2
        /\ ~Complete(Batch(c)[2])
        /\ (cycles[c].source = "opensky" => cycles[c].states[2].s6 = NULL)

\* C10: every state vector of a cycle that the code stores is written with its
\* altitude and velocity as received; in particular 0 stays 0.
C10_ZeroPreserved ==
    \A c \in Cycles :
        cycles[c].outcome = "opensky" =>
            \A i \in 1..Len(cycles[c].states) :
                LET s == cycles[c].states[i]
                IN (s.s0 /= NULL /\ TruthyNum(s.s5) /\ TruthyNum(s.s6)) =>
                      \E j \in 1..Len(cycles[c].written) :
                          /\ cycles[c].written[j].icao24 = s.s0
                          /\ cycles[c].written[j].longitude = s.s5
                          /\ cycles[c].written[j].latitude = s.s6
                          /\ cycles[c].written[j].altitude = s.s7
                          /\ cycles[c].written[j].velocity = s.s9

\* ------------------------------------------------ claims on GET /nearby
\* The request has been answered 200.
Answered == nearby.status = 200

\* The list of the 200 response.
Result == nearby.body[1].aircraft

\* The icao24 of the aircraft of the response.
Returned == { Result[i].icao24 : i \in 1..Len(Result) }

\* The distance of row r from the point of the request, in metres.
DistanceOf(r) ==
    calculateDistance(nearby.latitude[1], nearby.longitude[1], r.latitude[1], r.longitude[1])

\* The radius the filter was given, in metres.
RadiusOf == nearby.radiusKm[1] * Km

\* C11: a candidate at distance d with altitude alt is in the result exactly
\* when d <= radius_km, or d <= 200, or alt > 10500 and d <= 400, or
\* d <= 2 * radius_km, or alt > 8000 and d <= 300; every limit is inclusive.
C11_TieredFilter ==
    Answered =>
        \A r \in nearby.rows :
            r.icao24 \in Returned <=>
                \/ DistanceOf(r) <= RadiusOf
                \/ DistanceOf(r) <= 200 * Km
                \/ r.altitude[1] > 10500 /\ DistanceOf(r) <= 400 * Km
                \/ DistanceOf(r) <= 2 * RadiusOf
                \/ r.altitude[1] > 8000 /\ DistanceOf(r) <= 300 * Km

\* A high aircraft at exactly 400 km is returned for a radius of 50 km.
C11_Witness ==
    /\ Answered
    /\ nearby.radiusKm = Some(50)
    /\ \E r \in nearby.rows :
          r.icao24 \in Returned /\ DistanceOf(r) = 400 * Km /\ r.altitude[1] > 10500

\* C12 as stated: a candidate outside the radius at altitude 8000 m and
\* distance 300.0 km is in the result.
C12_Moderate8000 ==
    Answered =>
        \A r \in nearby.rows :
            (r.altitude = Some(8000) /\ DistanceOf(r) = 300 * Km /\ DistanceOf(r) > RadiusOf)
                => r.icao24 \in Returned

\* C12: a candidate outside the radius at an altitude above 8000 m and
\* distance 300.0 km is in the result.
C12_ModerateAbove8000 ==
    Answered =>
        \A r \in nearby.rows :
            (r.altitude[1] > 8000 /\ DistanceOf(r) = 300 * Km /\ DistanceOf(r) > RadiusOf)
                => r.icao24 \in Returned

\* At 8001 m and 300.0 km, more than twice the radius away, the aircraft is
\* returned: no other tier than the moderate-altitude one holds.
C12_Witness ==
    /\ Answered
    /\ \E r \in nearby.rows :
          /\ r.altitude = Some(8001)
          /\ DistanceOf(r) = 300 * Km
          /\ DistanceOf(r) > 2 * RadiusOf
          /\ r.icao24 \in Returned

\* C13 as stated: a candidate at altitude 8000 m and distance 301 km is not in
\* the result, whatever the radius.
C13_Excluded301 ==
    Answered =>
        \A r \in nearby.rows :
            (r.altitude = Some(8000) /\ DistanceOf(r) = 301 * Km) => r.icao24 \notin Returned

\* C13: a candidate at altitude 8000 m and distance 301 km is not in the
\* result when 301 km is more than twice the radius.
C13_Excluded301SmallRadius ==
    Answered =>
        \A r \in nearby.rows :
            (r.altitude = Some(8000) /\ DistanceOf(r) = 301 * Km /\ DistanceOf(r) > 2 * RadiusOf)
                => r.icao24 \notin Returned

\* An aircraft at 8000 m and 301 km was scanned for the default radius and is
\* not in the answer.
C13_Witness ==
    /\ Answered
    /\ nearby.radius = NULL
    /\ \E r \in nearby.rows :
          r.altitude = Some(8000) /\ DistanceOf(r) = 301 * Km /\ r.icao24 \notin Returned

\* The scanned row an aircraft of the response was made of.
RowOf(plane) == CHOOSE r \in nearby.rows : r.icao24 = plane.icao24

\* C14: the list is in ascending order of distance, both by the distance the
\* service computed and by the distance_km of the response, rounded to two
\* decimals.
C14_SortedByDistance ==
    Answered =>
        \A i \in 1..Len(Result) : \A j \in 1..Len(Result) :
            i < j => /\ DistanceOf(RowOf(Result[i])) <= DistanceOf(RowOf(Result[j]))
                     /\ Result[i].distance_km <= Result[j].distance_km

\* Three aircraft are returned, and one of them comes before an aircraft that
\* is farther away and was updated later (so came earlier in the scan).
C14_Witness ==
    /\ Answered
    /\ Len(Result) = 3
    /\ \E i \in 1..Len(Result) : \E j \in 1..Len(Result) :
          /\ i < j
          /\ Result[i].distance_km < Result[j].distance_km
          /\ Result[i].last_updated < Result[j].last_updated

\* C15: every aircraft of the response is a row of the store that, when read,
\* was not on the ground, had an altitude above 0 and had a latitude and a
\* longitude.
C15_OnlyFlyingRows ==
    Answered =>
        \A i \in 1..Len(Result) :
            \E r \in aircraft :
                /\ r.icao24 = Result[i].icao24
                /\ r \in nearby.rows
                /\ r.on_ground = FALSE
                /\ r.altitude /= NULL /\ r.altitude[1] > 0
                /\ r.latitude /= NULL /\ r.longitude /= NULL

\* The store holds an aircraft on the ground and one with no altitude, both
\* within the radius, and the answer has another aircraft only.
C15_Witness ==
    /\ Answered
    /\ Len(Result) = 1
    /\ \E r \in aircraft : r.on_ground = TRUE /\ DistanceOf(r) <= RadiusOf
    /\ \E r \in aircraft : r.altitude = NULL /\ DistanceOf(r) <= RadiusOf

\* The flying rows of the store that pass the visibility filter of the request.
FlyingVisible ==
    { r \in aircraft :
        /\ Candidate(r)
        /\ Visible(WithDistance(r, nearby.latitude[1], nearby.longitude[1]), nearby.radiusKm[1]) }

\* C16: every flying row of the store that passes the visibility
\* filter is in the result, however many rows the store has.
C16_Complete ==
    Answered => \A r \in FlyingVisible : r.icao24 \in Returned

\* The parameter p is present and its whole text is a number.
IsNumber(p) ==
    /\ p /= NULL
    /\ LET s     == p[1]
           first == IF Len(s) > 0 /\ s[1] = "-" THEN 2 ELSE 1
       IN  Len(s) >= first /\ DigitRun(s, first) = Len(s) - first + 1

\* The number the text of parameter p is.
NumberOf(p) == NumericPrefix(p[1])[1]

\* The request has a latitude and a longitude that are numbers in range and a
\* radius that is a number or absent.
ValidRequest ==
    /\ IsNumber(nearby.lat)
    /\ NumberOf(nearby.lat) >= 0 - 90 * MetresPerDegree
    /\ NumberOf(nearby.lat) <= 90 * MetresPerDegree
    /\ IsNumber(nearby.lon)
    /\ NumberOf(nearby.lon) >= 0 - 180
    /\ NumberOf(nearby.lon) <= 180
    /\ nearby.radius = NULL \/ IsNumber(nearby.radius)

\* The 200 response has count equal to the length of its list and echoes the
\* latitude, longitude and radius of the request; for an empty store the list
\* is empty.
WellFormed ==
    /\ nearby.body[1].count = Len(Result)
    /\ nearby.body[1].user_location.latitude = NumberOf(nearby.lat)
    /\ nearby.body[1].user_location.longitude = NumberOf(nearby.lon)
    /\ nearby.body[1].search_radius_km =
          IF nearby.radius = NULL THEN DefaultRadius ELSE NumberOf(nearby.radius)
    /\ aircraft = {} => Result = <<>> /\ nearby.body[1].count = 0

C18_InvalidRejected ==
    (nearby.pc /= "idle" /\ ~ValidRequest) =>
        /\ nearby.pc = "responded"
        /\ nearby.status = 400
        /\ nearby.calls = 0
        /\ nearby.rows = {}

\* ------------------------------------------------ claims on the scheduler
\* Cycle c has returned after a failure of a provider or of the store.
Failed(c) ==
    /\ cycles[c].pc = "done"
    /\ cycles[c].primaryErr \/ cycles[c].secErr \/ cycles[c].storeErr

\* The cycles startAircraftUpdates started.
InitialCycles == { c \in Cycles : cycles[c].startedBy = "initial" }

\* This step is a failure of a provider or of the store in some cycle.
FailureStep ==
    \E c \in Cycles :
        /\ c <= Len(cycles')
        /\ \/ cycles'[c].primaryErr /\ ~cycles[c].primaryErr
           \/ cycles'[c].secErr /\ ~cycles[c].secErr
           \/ cycles'[c].storeErr /\ ~cycles[c].storeErr

C20_ImmediateFetch ==
    /\ [](\A c \in Cycles :
            cycles[c].startedBy = "cron" =>
                \E b \in Cycles : b < c /\ cycles[b].startedBy = "initial")
    /\ [][(~isRunning /\ isRunning') =>
            /\ Len(cycles') = Len(cycles) + 1
            /\ cycles'[Len(cycles')].startedBy = "initial"
            /\ cycles'[Len(cycles')].pc = "opensky"
            /\ schedules' = schedules + 1]_vars

\* The first cycle was started by startAircraftUpdates and the second by a tick.
C20_Witness ==
    /\ Len(cycles) = 2
    /\ cycles[1].startedBy = "initial"
    /\ cycles[2].startedBy = "cron"

\* ------------------------------- claims on requests during fetch cycles
\* The records the stmt.run calls of all cycles have written so far.
Committed == UNION { { cycles[c].written[k] : k \in 1..Len(cycles[c].written) } : c \in Cycles }

\* The records the providers have returned to all cycles so far.
Observations ==
    UNION { { cycles[c].primary[k] : k \in 1..Len(cycles[c].primary) }
              \cup { cycles[c].secondary[k] : k \in 1..Len(cycles[c].secondary) } : c \in Cycles }

\* C21: a nearby request is accepted and its read of the store can run
\* whether or not fetch cycles are in flight, and every row it reads was
\* written by a stmt.run that had been executed.
C21_QueryNeverWaits ==
    /\ nearby.pc = "idle" => ENABLED NearbyRequest(Some(<<"0">>), Some(<<"1", "0">>), NULL)
    /\ nearby.pc = "scanning" => ENABLED (\E rows \in Scan(aircraft) : NearbyRows(rows))
    /\ \A r \in nearby.rows : \E rec \in Committed : SameData(r, rec)
    /\ Answered => \A i \in 1..Len(Result) : \E r \in nearby.rows : r.icao24 = Result[i].icao24

\* The only cycle has written the first record of its batch and not yet the
\* second, and the request was answered with the first aircraft alone.
C21_Witness ==
    /\ Answered
    /\ Len(cycles) = 1
    /\ cycles[1].pc = "updating"
    /\ Len(cycles[1].written) = 1
    /\ Len(cycles[1].queue) = 1
    /\ Len(Result) = 1
    /\ Result[1].icao24 = cycles[1].written[1].icao24

\* C22: every row of the table, every row a request has read and every
\* aircraft of an answer holds the fields of one observation; no row mixes the
\* fields of two.
C22_UpsertAtomic ==
    /\ \A r \in aircraft \cup nearby.rows : \E o \in Observations : SameData(r, o)
    /\ Answered =>
          \A i \in 1..Len(Result) :
              \E o \in Observations :
                  /\ Result[i].icao24 = o.icao24
                  /\ Result[i].latitude = o.latitude
                  /\ Result[i].longitude = o.longitude
                  /\ Result[i].altitude = o.altitude
                  /\ Result[i].velocity = o.velocity

\* Two cycles have each written an observation of the same aircraft, with
\* different positions, the second batch is still being applied, and the
\* request was answered with that aircraft.
C22_Witness ==
    /\ Answered
    /\ Len(cycles) = 2
    /\ cycles[2].pc = "updating"
    /\ cycles[2].queue /= <<>>
    /\ \E o1 \in WrittenFor(1, Some("a")) : \E o2 \in WrittenFor(2, Some("a")) :
          o1.latitude /= o2.latitude
    /\ \E i \in 1..Len(Result) : Result[i].icao24 = Some("a")

\* The icao24 values of the rows of table t.
Keys(t) == { r.icao24 : r \in t }

\* C25: no step of a fetch cycle or of a request removes an icao24 from the
\* table.
C25_KeysNeverRemoved == [][Keys(aircraft) \subseteq Keys(aircraft')]_vars

\* Two aircraft are stored, one of them written twice, and a request has
\* been answered.
C25_Witness ==
    /\ Answered
    /\ Cardinality(Keys(aircraft)) = 2
    /\ \E c1, c2 \in Cycles : c1 /= c2 /\ WrittenFor(c1, Some("a")) /= {} /\ WrittenFor(c2, Some("a")) /= {}

\* ------------------------------------------ claims on the adapters
\* C26: in one cycle each adapter is called at most once: the answer or the
\* failure of a provider takes the cycle past that provider, no later step
\* takes it back, and Aviation Stack is never called a second time.
C26_NoRetryInCycle ==
    /\ [](\A c \in Cycles : cycles[c].secCalls <= 1)
    /\ [][\A c \in Cycles :
            /\ (cycles[c].pc = "opensky" /\ cycles'[c] /= cycles[c])
                  => cycles'[c].pc /= "opensky"
            /\ (cycles[c].pc = "aviationstack" /\ cycles'[c] /= cycles[c])
                  => cycles'[c].pc /= "aviationstack"
            /\ cycles[c].pc /= "opensky" => cycles'[c].pc /= "opensky"
            /\ cycles[c].pc \in {"updating", "done"} => cycles'[c].pc /= "aviationstack"
            /\ cycles'[c].secCalls >= cycles[c].secCalls]_vars

\* Both providers failed in the first cycle, each called once, and the next
\* cycle was started by a tick.
C26_Witness ==
    /\ Len(cycles) = 2
    /\ cycles[1].pc = "done"
    /\ cycles[1].primaryErr
    /\ cycles[1].secErr
    /\ cycles[1].secCalls = 1
    /\ cycles[2].startedBy = "cron"

\* C27: every fetch cycle that has started finishes, when provider calls
\* settle and the store executes what is queued; and a provider call that
\* failed or timed out leaves the cycle no record of that provider.
C27_CycleFinishes ==
    /\ \A c \in 1..MaxCycles : (c <= Len(cycles)) ~> (c <= Len(cycles) /\ cycles[c].pc = "done")
    /\ [](\A c \in Cycles :
            /\ cycles[c].primaryErr => cycles[c].primary = <<>>
            /\ cycles[c].secErr => cycles[c].secondary = <<>>)

\* Two cycles have finished: one whose call to OpenSky failed and wrote
\* nothing, and one that wrote its batch.
C27_Witness ==
    /\ Len(cycles) = 2
    /\ \A c \in Cycles : cycles[c].pc = "done"
    /\ \E c \in Cycles : cycles[c].primaryErr /\ cycles[c].written = <<>>
    /\ \E c \in Cycles : Updated(c) /\ Len(cycles[c].written) = 2

\* ------------------------------------------- claims on the other routes
\* The rows of the table with the icao24 of the request.
Matching == { r \in aircraft : r.icao24 = request.icao24 }

\* A GET /:icao24 request has been answered.
LookedUp == request.route = "icao24" /\ request.pc = "responded"

\* C23 as stated: the lookup answers 404 exactly when the table has no row
\* with the icao24 asked for, and otherwise answers with the one row that has
\* it.
C23_NotFoundIffAbsent ==
    LookedUp =>
        /\ request.status = 404 <=> Matching = {}
        /\ Matching /= {} =>
              /\ request.status = 200
              /\ Matching = { request.body[1].aircraft }

\* C23: unless the read of the table fails, the lookup answers 404 exactly
\* when the table has no row with the icao24 asked for, and otherwise answers
\* with the one row that has it.
C23_NotFoundIffAbsentUnlessReadFails ==
    LookedUp =>
        /\ request.status \in {200, 404, 500}
        /\ request.status = 404 => Matching = {}
        /\ request.status = 200 => Matching = { request.body[1].aircraft }
        /\ request.status = 500 => request.error = "Database error" /\ request.body = NULL

\* Aircraft "b" was found in a store that also holds another aircraft.
C23_Witness ==
    /\ LookedUp
    /\ request.icao24 = Some("b")
    /\ request.status = 200
    /\ Cardinality(aircraft) > 1

\* A GET /stats/overview request has been answered 200.
StatsAnswered == request.route = "stats" /\ request.status = 200

\* C24: the stats of the response have total, airborne, on_ground, the
\* updates of the last hour and by_country, as the table has them when
\* answered.
C24_AllFiveAggregates ==
    StatsAnswered =>
        LET stats == request.body[1].stats
            rows  == request.read[1]
        IN  /\ stats.total = Cardinality(rows)
            /\ stats.airborne =
                  Cardinality({ r \in rows : r.on_ground = FALSE /\ r.altitude /= NULL /\ r.altitude[1] > 0 })
            /\ stats.on_ground = Cardinality({ r \in rows : r.on_ground = TRUE })
            /\ stats.recent_updates = Cardinality({ r \in rows : now - r.last_updated < Hour })
            /\ "by_country" \in DOMAIN stats
            /\ stats.by_country = ByCountry(rows)

\* A GET /all request has been answered 200.
AllAnswered == request.route = "all" /\ request.status = 200

\* The list of the response of GET /all.
AllResult == request.body[1].aircraft

Measured == measure # NoMeasure

Measurement == measure[1]

\* C28: the distance from any valid point to itself is 0.
C28_DistanceToSelfZero ==
    Measured => Measurement.pp = 0

\* A point off the equator and off the prime meridian was measured against
\* itself and the distance was 0.
C28_Witness ==
    /\ Measured
    /\ Measurement.p.lat # 0
    /\ Measurement.p.lon # 0
    /\ Measurement.pp = 0

\* C29: the distance from p to q equals the distance from q to p.
C29_DistanceSymmetric ==
    Measured => Measurement.pq = Measurement.qp

\* Two points of different latitudes and different longitudes were measured
\* both ways and the two distances are the same positive distance.
C29_Witness ==
    /\ Measured
    /\ Measurement.p.lat # Measurement.q.lat
    /\ Measurement.p.lon # Measurement.q.lon
    /\ Measurement.pq > 0
    /\ Measurement.pq = Measurement.qp

\* ---------------------------------------- claims on zero, stop and fallback
\* The state vector s has its icao24, its longitude and its latitude.
Present(s) == s.s0 /= NULL /\ s.s5 /= NULL /\ s.s6 /= NULL

\* C32: when a cycle has stored the list of OpenSky, every state vector of the
\* list that has icao24, latitude and longitude has been written with them,
\* also when the latitude or the longitude is 0.
C32_PresentWritten ==
    \A c \in Cycles :
        cycles[c].outcome = "opensky" =>
            \A i \in 1..Len(cycles[c].states) :
                LET s == cycles[c].states[i]
                IN Present(s) =>
                      \E j \in 1..Len(cycles[c].written) :
                          /\ cycles[c].written[j].icao24 = s.s0
                          /\ cycles[c].written[j].longitude = s.s5
                          /\ cycles[c].written[j].latitude = s.s6

\* C33: a step that starts a fetch cycle leaves the service running: while the
\* service is stopped no cycle starts, and the only step that starts one from
\* the stopped state is startAircraftUpdates.
C33_NoCycleWhileStopped ==
    [][Len(cycles') > Len(cycles) => isRunning']_vars

\* C34: at most one cron task is registered, whatever calls of
\* startAircraftUpdates and stopAircraftUpdates were made.
C34_AtMostOneSchedule == schedules <= 1

\* The list OpenSky answered cycle c with is not empty and every state vector of
\* it misses its icao24, its longitude or its latitude.
AllRejected(c) ==
    /\ cycles[c].states /= <<>>
    /\ \A i \in 1..Len(cycles[c].states) : ~Present(cycles[c].states[i])

\* C36: a cycle whose OpenSky list is not empty and has only rejected
\* observations goes to updateDatabase with that list, writes nothing and does
\* not call Aviation Stack.
C36_RawListDecides ==
    \A c \in Cycles :
        AllRejected(c) =>
            /\ cycles[c].pc \in {"updating", "done"}
            /\ cycles[c].source = "opensky"
            /\ cycles[c].written = <<>>
            /\ cycles[c].secCalls = 0
            /\ cycles[c].outcome \in {"pending", "opensky", "error"}

\* With the key of Aviation Stack set, a cycle whose OpenSky list had only a
\* rejected observation has finished as an update from OpenSky, and the table
\* is empty.
C36_Witness ==
    /\ apiKey
    /\ aircraft = {}
    /\ \E c \in Cycles :
          /\ AllRejected(c)
          /\ cycles[c].pc = "done"
          /\ cycles[c].outcome = "opensky"
          /\ cycles[c].secCalls = 0

\* C31: two consecutive firings of the cron task are exactly updateInterval
\* seconds apart, whatever the configured interval.
C31_FixedPeriod ==
    \A i \in 2..Len(ticks) : ticks[i] - ticks[i - 1] = updateInterval

\* The records written by the cycles that stored the list of Aviation Stack.
SecondaryWritten ==
    UNION { { cycles[c].written[j] : j \in 1..Len(cycles[c].written) } :
              c \in { d \in Cycles : cycles[d].source = "aviationstack" } }

\* The row or response element r holds the position of a record written from
\* Aviation Stack.
FromSecondary(r) ==
    \E rec \in SecondaryWritten :
        /\ rec.icao24 = r.icao24
        /\ rec.latitude = r.latitude
        /\ rec.longitude = r.longitude

C37_RequestCarriesNewRadius ==
    (client.sent /= NULL /\ client.sent[1].by = "radius") =>
        client.sent[1].radius = client.sent[1].selected

====
